---- MODULE Spec2Model ----
(***************************************************************************)
(* Model of the LDX safe-mutation engine and the queue reconciler of the   *)
(* USC-Racing-config backend:                                              *)
(*   backend/internal/motec_ldx_updater.py   (MotecLdxUpdater)             *)
(*   backend/internal/motec_translator.py    (MotecTranslator)             *)
(*   backend/internal/queue_auto_applier.py  (auto_apply_queued_changes)   *)
(*   backend/internal/database.py            (parameter_queue, parameters) *)
(*                                                                         *)
(* Strings are sequences of atoms: an atom is a word without '_' or ' ',   *)
(* or one of the separators "_" and " ".  str.replace / str.split on the   *)
(* separators therefore act on the model exactly as on the Python string.  *)
(***************************************************************************)
EXTENDS Integers, Sequences, FiniteSets, TLC

(* ---- bounds ----------------------------------------------------------- *)
MaxPatches == 2      \* calls of update_parameter_in_ldx in one behaviour
MaxQueue   == 2      \* rows ever inserted into parameter_queue
MaxWrites  == 2      \* calls of write_ldx in one behaviour
MaxMappings == 2     \* length of a list handed to set_channel_mappings
MaxClock   == 6      \* ticks of the clock in one behaviour

(* ---- string helpers ---------------------------------------------------- *)
\* str.replace(from, to) for a one-character pattern
ReplaceAtom(s, from, to) ==
    [i \in 1..Len(s) |-> IF s[i] = from THEN to ELSE s[i]]

\* str.title() word by word
TitleWord(w) ==
    CASE w = "wing"  -> "Wing"
      [] w = "angle" -> "Angle"
      [] OTHER       -> w

Title(s) == [i \in 1..Len(s) |-> TitleWord(s[i])]

\* str.lower() word by word
LowerWord(w) ==
    CASE w = "PSI" -> "psi"
      [] OTHER     -> w

Lower(s) == [i \in 1..Len(s) |-> LowerWord(s[i])]

\* Python "sub in s" for a non-empty sub
Contains(s, sub) ==
    \E i \in 0..(Len(s) - Len(sub)) : \A j \in 1..Len(sub) : s[i + j] = sub[j]

\* index of the last "_" of s, 0 when there is none
LastUnderscore(s) ==
    IF \E i \in 1..Len(s) : s[i] = "_"
    THEN CHOOSE i \in 1..Len(s) :
            /\ s[i] = "_"
            /\ \A j \in (i + 1)..Len(s) : s[j] # "_"
    ELSE 0

\* parts = s.split("_"): parts[-1] and "_".join(parts[:-1])
SplitField(s) == SubSeq(s, LastUnderscore(s) + 1, Len(s))
SplitId(s)    == SubSeq(s, 1, LastUnderscore(s) - 1)

(* ---- parameter names --------------------------------------------------- *)
\* A parameter name is prefix \o rest; no atom starts with "ldx", so
\* startswith(prefix) holds exactly when the prefix field is that prefix.
PName(prefix, rest) == [prefix |-> prefix, rest |-> rest]

(* ---- the parameter catalog (data/car_parameters.json) ------------------ *)
\* the default catalog holds tire_pressure_fl .. tire_pressure_rr, unit psi
CatalogNames == { <<"tire", "_", "pressure", "_", "fl">> }

get_car_parameter_definition(rest) ==
    IF rest \in CatalogNames
    THEN [found |-> TRUE,
          display_name |-> <<"Front", " ", "Left", " ", "Tire", " ", "Pressure">>,
          unit |-> <<"psi">>]
    ELSE [found |-> FALSE, display_name |-> <<>>, unit |-> <<>>]

(* ---- LDX documents ------------------------------------------------------ *)
\* layers / hasDetails: presence of the Layers and Details elements;
\* details: the String children of Details, math: the MathScaleOffset
\* children of MathItems, desc: the Descriptor children of Descriptors.
FirstIn(seq, ids) ==
    IF \E i \in 1..Len(seq) : seq[i].Id \in ids
    THEN CHOOSE i \in 1..Len(seq) :
            /\ seq[i].Id \in ids
            /\ \A j \in 1..(i - 1) : seq[j].Id \notin ids
    ELSE 0

NotUpdated(doc) == [updated |-> FALSE, doc |-> doc]
Updated(doc)    == [updated |-> TRUE,  doc |-> doc]

\* the identifiers a details lookup accepts for the decoded id
DetailsIds(string_id) == { string_id }

_update_details_string(doc, string_id, new_value) ==
    LET i == FirstIn(doc.details, DetailsIds(string_id)) IN
    IF ~doc.hasDetails \/ i = 0
    THEN NotUpdated(doc)
    ELSE Updated([doc EXCEPT !.details[i].Value = new_value])

_update_math_item(doc, item_id, field, new_value) ==
    LET i == FirstIn(doc.math, { item_id, ReplaceAtom(item_id, "_", " ") }) IN
    IF i = 0 THEN NotUpdated(doc)
    ELSE IF field \in { <<"scale">>, <<"Scale">> }
         THEN Updated([doc EXCEPT !.math[i].Scale = new_value])
    ELSE IF field \in { <<"offset">>, <<"Offset">> }
         THEN Updated([doc EXCEPT !.math[i].Offset = new_value])
    ELSE NotUpdated(doc)

_update_descriptor(doc, desc_id, field, new_value) ==
    LET i == FirstIn(doc.desc, { desc_id }) IN
    IF i = 0 THEN NotUpdated(doc)
    ELSE IF field \in { <<"dps">>, <<"DisplayDPS">> }
         THEN Updated([doc EXCEPT !.desc[i].DPS = new_value])
    ELSE IF field \in { <<"unit">>, <<"DisplayUnit">> }
         THEN Updated([doc EXCEPT !.desc[i].Unit = new_value])
    ELSE NotUpdated(doc)

\* "<value> <unit>" unless the value already contains the unit, then "(<comment>)"
FormatValue(defn, new_value, comment) ==
    LET withUnit ==
            IF defn.found /\ defn.unit # <<>> /\ new_value # <<>>
               /\ ~Contains(Lower(new_value), Lower(defn.unit))
            THEN new_value \o <<" ">> \o defn.unit
            ELSE new_value
    IN IF comment # <<>> THEN withUnit \o <<" ", "(">> \o comment \o <<")">>
       ELSE withUnit

DetailsIdFor(defn, rest) ==
    IF defn.found /\ defn.display_name # <<>>
    THEN defn.display_name
    ELSE Title(ReplaceAtom(rest, "_", " "))

AddOrSetString_append(details, details_id, formatted_value) ==
    Append(details, [Id |-> details_id, Value |-> formatted_value])

\* a new String element is appended only when no String carries the id
AddOrSetString(details, details_id, formatted_value) ==
    LET i == FirstIn(details, { details_id }) IN
    IF i # 0
    THEN [details EXCEPT ![i].Value = formatted_value]
    ELSE Append(details, [Id |-> details_id, Value |-> formatted_value])

_update_or_add_details_documentation_catalogOnly(doc, rest, new_value, comment) ==
    LET defn == get_car_parameter_definition(rest) IN
    IF defn.found
    THEN Updated([doc EXCEPT !.layers = TRUE,
                             !.hasDetails = TRUE,
                             !.details = AddOrSetString(doc.details, DetailsIdFor(defn, rest),
                                                        FormatValue(defn, new_value, comment))])
    ELSE NotUpdated(doc)

\* lines 320-384: the catalog's display name and unit, or without a catalog
\* entry the title-cased name and the bare value; always returns True
_update_or_add_details_documentation(doc, rest, new_value, comment) ==
    LET defn == get_car_parameter_definition(rest)
        details_id == DetailsIdFor(defn, rest)
        formatted_value == FormatValue(defn, new_value, comment)
    IN Updated([doc EXCEPT !.layers = TRUE,
                           !.hasDetails = TRUE,
                           !.details = AddOrSetString(doc.details, details_id, formatted_value)])

\* line 95: parameter_name.replace("ldx_details_", "").replace("_", " ")
DecodeDetailsId(pname) == ReplaceAtom(pname.rest, "_", " ")

\* lines 92-126: classify by prefix, decode the id, mutate the tree in memory
ApplyPatch(doc, pname, new_value, comment) ==
    IF pname.prefix = "ldx_details_"
    THEN _update_details_string(doc, DecodeDetailsId(pname), new_value)
    ELSE IF pname.prefix = "ldx_math_"
    THEN IF LastUnderscore(pname.rest) > 0
         THEN _update_math_item(doc, SplitId(pname.rest), SplitField(pname.rest), new_value)
         ELSE NotUpdated(doc)
    ELSE IF pname.prefix = "ldx_desc_"
    THEN IF LastUnderscore(pname.rest) > 0
         THEN _update_descriptor(doc, SplitId(pname.rest), SplitField(pname.rest), new_value)
         ELSE NotUpdated(doc)
    ELSE _update_or_add_details_documentation(doc, pname.rest, new_value, comment)

(* ---- files -------------------------------------------------------------- *)
\* A path holds no file ("missing"), a created file with nothing written
\* ("empty"), a write that stopped part-way ("partial") or a complete XML
\* file ("xml").  A complete file is its formatting ("orig" as uploaded,
\* "indented" as ET.indent + ET.tostring with an XML declaration produce it)
\* and its document.
Paths == { "ldx", "bak", "tmp" }

NoDoc == [layers |-> FALSE, hasDetails |-> FALSE, details |-> <<>>, math |-> <<>>, desc |-> <<>>]

Missing == [kind |-> "missing", fmt |-> "", doc |-> NoDoc]
Empty   == [kind |-> "empty",   fmt |-> "", doc |-> NoDoc]
Partial == [kind |-> "partial", fmt |-> "", doc |-> NoDoc]

IsXml(c) == c.kind = "xml"

Parse(c) == c.doc

Serialize(doc) == [kind |-> "xml", fmt |-> "indented", doc |-> doc]

Uploaded(doc) == [kind |-> "xml", fmt |-> "orig", doc |-> doc]

(* ---- documents the model starts from ------------------------------------ *)
V0 == <<"v0">>

DocFull ==
    [layers |-> TRUE, hasDetails |-> TRUE,
     details |-> << [Id |-> <<"Fastest", "_", "Time">>, Value |-> V0],
                    [Id |-> <<"Fastest", " ", "Time">>, Value |-> V0] >>,
     math    |-> << [Id |-> <<"Gear", " ", "Ratio">>, Scale |-> <<"1">>, Offset |-> <<"0">>] >>,
     desc    |-> << [Id |-> <<"Gear", "_", "Ratio">>, DPS |-> <<"2">>, Unit |-> <<"psi">>] >>]

DocNoDetails == [NoDoc EXCEPT !.layers = TRUE]

\* a file whose Details and MathItems ids are in underscore form and whose
\* Descriptor id is in space form
DocOtherForm ==
    [layers |-> TRUE, hasDetails |-> TRUE,
     details |-> << [Id |-> <<"Fastest", "_", "Time">>, Value |-> V0] >>,
     math    |-> << [Id |-> <<"Gear", "_", "Ratio">>, Scale |-> <<"1">>, Offset |-> <<"0">>] >>,
     desc    |-> << [Id |-> <<"Gear", " ", "Ratio">>, DPS |-> <<"2">>, Unit |-> <<"psi">>] >>]

InitDocs == { DocFull, DocNoDetails, NoDoc }

(* ---- MotecTranslator.ldx_to_parameters ---------------------------------- *)
\* The dict literal built for every details entry (and every math item and
\* descriptor) reads the name param_subteam, which the function never binds.
ParamSubteamBound == FALSE

DetailsParamName(key) ==
    PName("ldx_details_", ReplaceAtom(ReplaceAtom(key, " ", "_"), "/", "_"))

\* result: ok = FALSE stands for the ValueError the outer handler raises
ldx_to_parameters(c) ==
    IF ~IsXml(c)
    THEN [ok |-> FALSE, names |-> <<>>]
    ELSE LET doc == Parse(c) IN
         IF doc.hasDetails /\ Len(doc.details) > 0
         THEN IF ParamSubteamBound
              THEN [ok |-> TRUE,
                    names |-> [i \in 1..Len(doc.details) |-> DetailsParamName(doc.details[i].Id)]]
              ELSE [ok |-> FALSE, names |-> <<>>]
         ELSE [ok |-> TRUE, names |-> <<>>]

(* ---- inputs ---------------------------------------------------------------- *)
Names ==
    { PName("ldx_details_", <<"Fastest", "_", "Time">>),
      PName("ldx_details_", <<"Track">>),
      PName("ldx_math_",    <<"Gear", "_", "Ratio", "_", "scale">>),
      PName("ldx_desc_",    <<"Gear", "_", "Ratio", "_", "dps">>),
      PName("",             <<"tire", "_", "pressure", "_", "fl">>),
      PName("",             <<"wing", "_", "angle">>) }

Values   == { <<"54">>, <<"30", "PSI">> }
Comments == { <<>>, <<"c">> }

PatchArgs == [name : Names, value : Values, comment : Comments]

NoArgs == [name |-> PName("", <<>>), value |-> <<>>, comment |-> <<>>]

NoOk == [valid |-> FALSE, args |-> NoArgs, file |-> Missing, bak |-> Missing]

(* ---- state ------------------------------------------------------------------ *)
VARIABLES
    fs,          \* path -> content of the LDX file, its .bak and its .tmp sibling
    upc,         \* position of the running update_parameter_in_ldx call
    uargs,       \* its (parameter_name, new_value, comment)
    utree,       \* its in-memory tree after the mutation
    ures,        \* what the call returned: "none", "true", "false", "raise"
    ucaller,     \* "api" or "reconciler"
    upre,        \* history: content of the path when the call started
    ucommitted,  \* history: the call performed os.replace
    seen,        \* history: what a concurrent reader of the path last observed
    npatch,      \* history: number of calls made
    orig,        \* history: the file as it was uploaded, before any patch
    okPrev,      \* history: the successful direct call before the last one
    okLast,      \* history: the last successful direct call and the files it left
    imported,    \* result of the last ldx_to_parameters, ran = FALSE before
    status_default, \* DEFAULT of parameter_queue.status in the database file
    queue,       \* rows of parameter_queue in insertion order
    parameters,  \* parameter name -> row of the parameters table
    history,     \* rows of parameter_history in insertion order
    plast,       \* history: the last process_queue_item call and its outcome
    rpc,         \* position of the running auto_apply_queued_changes_to_file
    ritems,      \* the rows it fetched, in the order it processes them
    ri,          \* index of the row being processed
    applied,     \* its applied_items (form ids)
    failed,      \* its failed_items (form ids)
    rattempts    \* history: form ids it handed to the patcher, in order

patchVars == << fs, upc, uargs, utree, ures, ucaller, upre, ucommitted, seen,
                npatch, orig, okPrev, okLast, imported >>
dbVars    == << status_default, queue, parameters, history, plast >>
recVars   == << rpc, ritems, ri, applied, failed, rattempts >>
coreVars  == << patchVars, dbVars, recVars >>

\* MotecFileService.write_ldx / read_ldx and the session linker's LDX generation
VARIABLES
    lfs,         \* path -> content of the written LDX path and of its .ldx.tmp
    wpc,         \* position of the running write_ldx call
    wmodel,      \* the MotecLdxModel it writes
    wres,        \* how the call ended: "none", "ok" or the exception raised
    wold,        \* history: content of the path when the call started
    wseen,       \* history: what a concurrent reader of the path last observed
    wcaller,     \* "api" (write_ldx called directly) or "linker"
    wpath,       \* the path it writes
    nwrite,      \* history: number of write_ldx and generation calls made
    policy,      \* config["overwrite_policy"]
    rback        \* history: the last read_ldx of a file write_ldx produced

codecVars == << lfs, wpc, wmodel, wres, wold, wseen, wcaller, wpath, nwrite, policy, rback >>

\* NasDiscoveryService: scan_for_files called by the background loop and by requests
VARIABLES
    clock,        \* datetime.now() in ticks
    nasUp,        \* the NAS path is mounted and readable
    nas_status,   \* self.nas_status: connected, last_scan, error
    discovered,   \* self.discovered_ld_files / discovered_ldx_files
    scan_lock,    \* holder of self.scan_lock, "free" when nobody holds it
    tpc,          \* thread -> position in scan_for_files
    tforce,       \* thread -> the force argument of its call
    tres,         \* thread -> status and file lists its last call returned
    toverlap,     \* history: thread -> its call arrived while another scan body ran
    bgwake,       \* the tick at which the background loop's sleep ends
    last_success  \* history: last_scan stamp of the last scan that returned "success"

nasVars == << clock, nasUp, nas_status, discovered, scan_lock, tpc, tforce, tres,
              toverlap, bgwake, last_success >>

\* MotecFileService.read_ld_metadata / validate_ld and the linker's batch discovery
VARIABLES
    ldfiles,      \* LD file name -> what the scan directory holds under it
    ldmeta,       \* result of the last read_ld_metadata call, ran = FALSE before
    linked,       \* result of the last direct link_ld_to_session call
    batch         \* result of the last discover_and_link_sessions call

ldVars == << ldfiles, ldmeta, linked, batch >>

\* MotecConfigService: channel mappings per car
VARIABLES
    channel_mappings,  \* self._channel_mappings: car id -> list of MotecChannelConfig
    removed,           \* what the last remove_channel_mapping returned, "none" before
    mapkeys,           \* the car ids self._channel_mappings has a key for
    held               \* a MotecSessionConfig a caller got from link_ld_to_session, and
                       \* whether its channels is the list object stored for its car

mapVars == << channel_mappings, removed, mapkeys, held >>

\* api_upload_motec_file: the upload handlers running on the event loop
VARIABLES
    uploads       \* upload -> position, identified car, fetched rows and outcome
                  \*           of its auto_apply_queued_changes_to_file call

uploadVars == << uploads >>

\* MotecTranslator.merge_ldx_with_parameters
VARIABLES
    merged        \* the last merge call: its template, records, strategy and output

mergeVars == << merged >>

\* NasDiscoveryService._scan_ld_files / _scan_ldx_files
VARIABLES
    scanned       \* the last pass over the scan directories: layout, kind and entries

capVars == << scanned >>

\* NasDiscoveryService: start / stop of the background scan loop
VARIABLES
    running,      \* self.running
    scan_thread,  \* self.scan_thread: the loop thread started last, 0 before
    loops,        \* loop thread -> its position in _background_scan_loop
    callpc,       \* position of the caller of start / stop: "idle" or "join"
    retired       \* history: the loops started before a stop call that has returned

bgVars == << running, scan_thread, loops, callpc, retired >>

moreVars  == << uploadVars, mergeVars, capVars, bgVars >>
extVars   == << codecVars, nasVars, ldVars, mapVars, moreVars >>
\* everything but one component
notCodec  == << coreVars, nasVars, ldVars, mapVars, moreVars >>
notNas    == << coreVars, codecVars, ldVars, mapVars, moreVars >>
notLd     == << coreVars, codecVars, nasVars, mapVars, moreVars >>
notMap    == << coreVars, codecVars, nasVars, ldVars, moreVars >>
notUpload == << patchVars, recVars, codecVars, nasVars, ldVars, mapVars, mergeVars, capVars,
               bgVars >>
notMerge  == << coreVars, codecVars, nasVars, ldVars, mapVars, uploadVars, capVars, bgVars >>
notCap    == << coreVars, codecVars, nasVars, ldVars, mapVars, uploadVars, mergeVars, bgVars >>
notBg     == << coreVars, codecVars, nasVars, ldVars, mapVars, uploadVars, mergeVars, capVars >>
vars      == << coreVars, extVars >>

(* ---- MotecLdxUpdater.update_parameter_in_ldx --------------------------------- *)
\* the path the serialized tree is staged at (file_path + ".tmp")
StageTarget_inplace == "ldx"
StageTarget == "tmp"

\* where control goes when the staged write raises: the handler returns False
OnStageWriteError_swallow == "replace"
OnStageWriteError == "abort"

\* lines 135 and 230-237: an exception of shutil.copy2 reaches the handler
OnBackupError_goOn == "stage"
OnBackupError == "abort"

ReturnFrom(result) ==
    /\ ures' = result
    /\ upc' = "idle"

\* lines 64-126: stats, exists, parse, locate and mutate in memory
PatchBegin(caller, args) ==
    /\ upc = "idle"
    /\ ures = "none"
    /\ npatch < MaxPatches
    /\ npatch' = npatch + 1
    /\ ucaller' = caller
    /\ uargs' = args
    /\ upre' = fs["ldx"]
    /\ ucommitted' = FALSE
    /\ seen' = "none"
    /\ UNCHANGED << fs, orig, okPrev, okLast, imported >>
    /\ IF fs["ldx"].kind = "missing"
       THEN \* before_stats has no 'hash': None[:16] raises outside the try
            /\ ReturnFrom("raise")
            /\ utree' = NoDoc
       ELSE IF ~IsXml(fs["ldx"])
       THEN \* ET.parse raises, the handler returns False
            /\ ReturnFrom("false")
            /\ utree' = NoDoc
       ELSE LET r == ApplyPatch(Parse(fs["ldx"]), args.name, args.value, args.comment) IN
            IF r.updated
            THEN /\ upc' = "backup"
                 /\ ures' = "none"
                 /\ utree' = r.doc
            ELSE /\ ReturnFrom("false")
                 /\ utree' = NoDoc

\* lines 131-138: shutil.copy2 unless a .bak exists; copy2 may fail before it
\* creates the destination or after it has written part of it
Backup ==
    /\ UNCHANGED extVars
    /\ upc = "backup"
    /\ UNCHANGED << uargs, utree, ucaller, upre, ucommitted, seen, npatch, orig,
                    okPrev, okLast, imported, dbVars, recVars >>
    /\ IF fs["bak"].kind # "missing"
       THEN /\ upc' = "stage"
            /\ UNCHANGED << fs, ures >>
       ELSE \E outcome \in { "copied", "failed", "failed_partway" } :
            CASE outcome = "copied" ->
                    /\ fs' = [fs EXCEPT !["bak"] = fs["ldx"]]
                    /\ upc' = "stage"
                    /\ UNCHANGED ures
              [] outcome = "failed" ->
                    /\ IF OnBackupError = "abort"
                       THEN ReturnFrom("false")
                       ELSE upc' = OnBackupError /\ UNCHANGED ures
                    /\ UNCHANGED fs
              [] outcome = "failed_partway" ->
                    /\ fs' = [fs EXCEPT !["bak"] = Partial]
                    /\ ReturnFrom("false")

\* line 163: open(temp_path, 'wb') creates or truncates the staging file
StageOpen ==
    /\ UNCHANGED extVars
    /\ upc = "stage"
    /\ UNCHANGED << uargs, utree, ucaller, upre, ucommitted, seen, npatch, orig,
                    okPrev, okLast, imported, dbVars, recVars >>
    /\ \E ok \in BOOLEAN :
        IF ok
        THEN /\ fs' = [fs EXCEPT ![StageTarget] = Empty]
             /\ upc' = "write"
             /\ UNCHANGED ures
        ELSE /\ ReturnFrom("false")
             /\ UNCHANGED fs

\* lines 164-167: write, flush, fsync
StageWrite ==
    /\ UNCHANGED extVars
    /\ upc = "write"
    /\ UNCHANGED << uargs, utree, ucaller, upre, ucommitted, seen, npatch, orig,
                    okPrev, okLast, imported, dbVars, recVars >>
    /\ \E ok \in BOOLEAN :
        IF ok
        THEN /\ fs' = [fs EXCEPT ![StageTarget] = Serialize(utree)]
             /\ upc' = "replace"
             /\ UNCHANGED ures
        ELSE /\ fs' = [fs EXCEPT ![StageTarget] = Partial]
             /\ IF OnStageWriteError = "abort"
                THEN ReturnFrom("false")
                ELSE upc' = OnStageWriteError /\ UNCHANGED ures

\* line 172: os.replace(temp_path, file_path), one atomic rename
Replace ==
    /\ UNCHANGED extVars
    /\ upc = "replace"
    /\ UNCHANGED << uargs, utree, ucaller, upre, seen, npatch, orig,
                    okPrev, okLast, imported, dbVars, recVars >>
    /\ \E ok \in BOOLEAN :
        IF ok
        THEN /\ fs' = IF StageTarget = "ldx" THEN fs
                      ELSE [fs EXCEPT !["ldx"] = fs[StageTarget], ![StageTarget] = Missing]
             /\ ucommitted' = TRUE
             /\ upc' = "verify"
             /\ UNCHANGED ures
        ELSE /\ ReturnFrom("false")
             /\ UNCHANGED << fs, ucommitted >>

\* lines 175-224: re-read the committed file, log match or mismatch, return True
Verify ==
    /\ UNCHANGED extVars
    /\ upc = "verify"
    /\ ReturnFrom("true")
    /\ IF ucaller = "api"
       THEN /\ okPrev' = okLast
            /\ okLast' = [valid |-> TRUE, args |-> uargs, file |-> fs["ldx"], bak |-> fs["bak"]]
       ELSE UNCHANGED << okPrev, okLast >>
    /\ UNCHANGED << fs, uargs, utree, ucaller, upre, ucommitted, seen, npatch, orig,
                    imported, dbVars, recVars >>

\* the caller has the result: the call's locals and its history are dropped
ForgetCall ==
    /\ uargs' = NoArgs
    /\ utree' = NoDoc
    /\ upre' = Missing
    /\ ucommitted' = FALSE
    /\ seen' = "none"

(* ---- callers of the patcher outside the reconciler --------------------------- *)
\* main.py update_parameter_in_ldx_files: patches only an existing .ldx path
ApiPatch ==
    /\ UNCHANGED extVars
    /\ fs["ldx"].kind # "missing"
    /\ \E args \in PatchArgs : PatchBegin("api", args)
    /\ UNCHANGED << dbVars, recVars >>

ApiPatchReturn ==
    /\ UNCHANGED extVars
    /\ ucaller = "api"
    /\ upc = "idle"
    /\ ures # "none"
    /\ ures' = "none"
    /\ ForgetCall
    /\ UNCHANGED << fs, upc, ucaller, npatch, orig, okPrev, okLast, imported, dbVars, recVars >>

\* another process or thread opening the path while a call is in progress
ReaderRead ==
    /\ UNCHANGED extVars
    /\ upc # "idle"
    /\ seen' = IF fs["ldx"] = upre THEN "old"
               ELSE IF fs["ldx"] = Serialize(utree) THEN "new"
               ELSE "torn"
    /\ seen' # seen
    /\ UNCHANGED << fs, upc, uargs, utree, ures, ucaller, upre, ucommitted, npatch, orig,
                    okPrev, okLast, imported, dbVars, recVars >>

\* main.py import endpoints: MotecTranslator.ldx_to_parameters(file_path)
ImportLdx ==
    /\ UNCHANGED extVars
    /\ upc = "idle"
    /\ fs["ldx"].kind # "missing"
    /\ imported' = [ran |-> TRUE, result |-> ldx_to_parameters(fs["ldx"]), file |-> fs["ldx"]]
    /\ imported' # imported
    /\ UNCHANGED << fs, upc, uargs, utree, ures, ucaller, upre, ucommitted, seen, npatch, orig,
                    okPrev, okLast, dbVars, recVars >>

NotImported == [ran |-> FALSE, result |-> [ok |-> TRUE, names |-> <<>>], file |-> Missing]

(* ---- the parameter store (database.py) ---------------------------------------- *)
\* queue statuses; config/settings.py under src/ carries no QUEUE_STATUS_*
\* attribute, the values are those of the QueueChange status field
QUEUE_STATUS_PENDING      == "pending"
QUEUE_STATUS_AUTO_APPLIED == "auto-applied"
QUEUE_STATUS_PROCESSED    == "processed"
QUEUE_STATUS_REJECTED     == "rejected"

\* init_db creates parameter_queue with a plain (not f-) string, so a table
\* it creates has this text as the DEFAULT of the status column
CreateTableStatusDefault == "{settings.QUEUE_STATUS_PENDING}"

\* CREATE TABLE IF NOT EXISTS keeps the table of a database file made by an
\* earlier schema (init_db carries migrations for such files)
LegacyStatusDefault == "pending"

NoCar == ""

QueueNames ==
    { PName("ldx_details_", <<"Fastest", "_", "Time">>),
      PName("ldx_details_", <<"Track">>),
      PName("",             <<"tire", "_", "pressure", "_", "fl">>) }

\* the changes users submit in the model: (parameter_name, new_value, car_id)
QueueInputs ==
    { [name |-> PName("ldx_details_", <<"Fastest", "_", "Time">>), value |-> <<"54">>,        car |-> "Car1"],
      [name |-> PName("ldx_details_", <<"Fastest", "_", "Time">>), value |-> <<"30", "PSI">>, car |-> "Car1"],
      [name |-> PName("ldx_details_", <<"Track">>),                value |-> <<"54">>,        car |-> "Car1"],
      [name |-> PName("",             <<"tire", "_", "pressure", "_", "fl">>), value |-> <<"54">>,       car |-> "Car2"] }

NoParam == [exists |-> FALSE, current_value |-> <<>>]

\* add_to_queue: the INSERT names no status column
InsertQueueRow(q, default, name, value, comment, car) ==
    Append(q, [form_id       |-> Len(q) + 1,
               parameter_name |-> name,
               new_value      |-> value,
               comment        |-> comment,
               car_id         |-> car,
               status         |-> default,
               submitted_at   |-> Len(q) + 1])

\* ORDER BY submitted_at DESC
QueueOrder(a, b) == a.submitted_at >= b.submitted_at

\* get_queue(status, car_id): a falsy filter is no filter
get_queue(q, status, car) ==
    LET S == { i \in 1..Len(q) :
                /\ (status = "" \/ q[i].status = status)
                /\ (car = NoCar \/ q[i].car_id = car) }
        n == Cardinality(S)
        order == CHOOSE f \in [1..n -> S] :
                    /\ \A a, b \in 1..n : a # b => f[a] # f[b]
                    /\ \A a, b \in 1..n : a < b => QueueOrder(q[f[a]], q[f[b]])
    IN [k \in 1..n |-> q[order[k]]]

\* update_parameter: BEGIN IMMEDIATE, upsert the parameter, insert the history
\* row, commit.  BEGIN IMMEDIATE raises "database is locked" when another
\* connection holds the write lock; nothing is written then.
update_parameter(params, hist, name, value, form_id, writeLocked) ==
    IF writeLocked
    THEN [ok |-> FALSE, parameters |-> params, history |-> hist]
    ELSE [ok |-> TRUE,
          parameters |-> [params EXCEPT ![name] = [exists |-> TRUE, current_value |-> value]],
          history |-> Append(hist, [parameter_name |-> name,
                                    prior_value |-> params[name].current_value,
                                    new_value |-> value,
                                    form_id |-> form_id])]

SetStatus(q, form_id, status) ==
    [i \in 1..Len(q) |-> IF q[i].form_id = form_id THEN [q[i] EXCEPT !.status = status] ELSE q[i]]

AddToQueue ==
    /\ UNCHANGED extVars
    /\ upc = "idle"
    /\ ures = "none"
    /\ Len(queue) < MaxQueue
    /\ \E inp \in QueueInputs :
        queue' = InsertQueueRow(queue, status_default, inp.name, inp.value, <<>>, inp.car)
    /\ UNCHANGED << status_default, parameters, history, plast, patchVars, recVars >>

NoProcess == [ran |-> FALSE, form_id |-> 0, was |-> "", result |-> "none"]

\* process_queue_item: its own connection holds BEGIN IMMEDIATE while it
\* calls update_parameter, which opens a second connection
process_queue_item(q, params, hist, form_id) ==
    LET S == { i \in 1..Len(q) :
                /\ q[i].form_id = form_id
                /\ q[i].status \in { QUEUE_STATUS_PENDING, QUEUE_STATUS_AUTO_APPLIED } }
    IN IF S = {}
       THEN [result |-> "false", queue |-> q, parameters |-> params, history |-> hist]
       ELSE LET item == q[CHOOSE i \in S : TRUE] IN
            IF item.status = QUEUE_STATUS_AUTO_APPLIED
            THEN [result |-> "true", queue |-> SetStatus(q, form_id, QUEUE_STATUS_PROCESSED),
                  parameters |-> params, history |-> hist]
            ELSE LET u == update_parameter(params, hist, item.parameter_name,
                                           item.new_value, form_id, TRUE) IN
                 IF u.ok
                 THEN [result |-> "true", queue |-> SetStatus(q, form_id, QUEUE_STATUS_PROCESSED),
                       parameters |-> u.parameters, history |-> u.history]
                 ELSE [result |-> "raise", queue |-> q, parameters |-> params, history |-> hist]

ProcessQueueItem ==
    /\ UNCHANGED extVars
    /\ upc = "idle"
    /\ ures = "none"
    /\ \E i \in 1..Len(queue) :
        LET r == process_queue_item(queue, parameters, history, queue[i].form_id) IN
        /\ queue' = r.queue
        /\ parameters' = r.parameters
        /\ history' = r.history
        /\ plast' = [ran |-> TRUE, form_id |-> queue[i].form_id,
                     was |-> queue[i].status, result |-> r.result]
        /\ << queue', plast' >> # << queue, plast >>
    /\ UNCHANGED << status_default, patchVars, recVars >>

\* reject_queue_item: UPDATE ... WHERE form_id = ?, whatever the status
RejectQueueItem ==
    /\ UNCHANGED extVars
    /\ upc = "idle"
    /\ ures = "none"
    /\ \E i \in 1..Len(queue) :
        /\ queue' = SetStatus(queue, queue[i].form_id, QUEUE_STATUS_REJECTED)
        /\ queue' # queue
    /\ UNCHANGED << status_default, parameters, history, plast, patchVars, recVars >>

\* motec_file_manager.delete_file: unlink the uploaded file
DeleteFile ==
    /\ UNCHANGED extVars
    /\ upc = "idle"
    /\ ures = "none"
    /\ fs["ldx"].kind # "missing"
    /\ fs' = [fs EXCEPT !["ldx"] = Missing]
    /\ UNCHANGED << upc, uargs, utree, ures, ucaller, upre, ucommitted, seen, npatch, orig,
                    okPrev, okLast, imported, dbVars, recVars >>

(* ---- queue_auto_applier.auto_apply_queued_changes_to_file ------------------------ *)
\* what the per-item handler does with an exception: record it in failed_items
OnItemException_propagate == "raised"
OnItemException == "failed"

FormIds(items) == [k \in 1..Len(items) |-> items[k].form_id]

\* lines 35-57: the file must exist; fetch the pending rows of the car
RecStart ==
    /\ UNCHANGED extVars
    /\ rpc = "idle"
    /\ upc = "idle"
    /\ ures = "none"
    /\ \E car \in { NoCar, "Car1" } :
        LET items == IF fs["ldx"].kind = "missing" THEN <<>>
                     ELSE get_queue(queue, QUEUE_STATUS_PENDING, car) IN
        /\ ritems' = items
        /\ rpc' = IF items = <<>> THEN "done" ELSE "loop"
    /\ ri' = 1
    /\ applied' = <<>>
    /\ failed' = <<>>
    /\ rattempts' = <<>>
    /\ UNCHANGED << patchVars, dbVars >>

\* lines 60-73: hand the next row to the patcher
RecItemPatch ==
    /\ UNCHANGED extVars
    /\ rpc = "loop"
    /\ PatchBegin("reconciler", [name    |-> ritems[ri].parameter_name,
                                 value   |-> ritems[ri].new_value,
                                 comment |-> ritems[ri].comment])
    /\ rpc' = "patching"
    /\ rattempts' = Append(rattempts, ritems[ri].form_id)
    /\ UNCHANGED << ritems, ri, applied, failed, dbVars >>

NextItem ==
    /\ ri' = ri + 1
    /\ rpc' = IF ri = Len(ritems) THEN "done" ELSE "loop"

ItemFailed_drop ==
    /\ UNCHANGED << applied, failed >>
    /\ NextItem

ItemFailed ==
    /\ failed' = Append(failed, ritems[ri].form_id)
    /\ UNCHANGED applied
    /\ NextItem

ItemRaised ==
    IF OnItemException = "failed"
    THEN ItemFailed
    ELSE /\ rpc' = OnItemException
         /\ UNCHANGED << ri, applied, failed >>

\* lines 75-134: on success record the value and mark the row auto-applied;
\* a False result or an exception anywhere in the item goes to failed_items
RecItemFinish ==
    /\ UNCHANGED extVars
    /\ rpc = "patching"
    /\ upc = "idle"
    /\ ucaller = "reconciler"
    /\ ures # "none"
    /\ ures' = "none"
    /\ ForgetCall
    /\ UNCHANGED << fs, upc, ucaller, npatch, orig, okPrev, okLast, imported,
                    status_default, plast, ritems, rattempts >>
    /\ LET item == ritems[ri] IN
       CASE ures = "false" ->
                /\ ItemFailed
                /\ UNCHANGED << queue, parameters, history >>
         [] ures = "raise" ->
                /\ ItemRaised
                /\ UNCHANGED << queue, parameters, history >>
         [] ures = "true" ->
                \E writeLocked \in BOOLEAN, markRaises \in BOOLEAN :
                    LET u == update_parameter(parameters, history, item.parameter_name,
                                              item.new_value, item.form_id, writeLocked) IN
                    /\ parameters' = u.parameters
                    /\ history' = u.history
                    /\ IF ~u.ok
                       THEN /\ ~markRaises
                            /\ ItemRaised
                            /\ UNCHANGED queue
                       ELSE IF markRaises
                       THEN /\ ItemRaised
                            /\ UNCHANGED queue
                       ELSE /\ queue' = SetStatus(queue, item.form_id, QUEUE_STATUS_AUTO_APPLIED)
                            /\ applied' = Append(applied, item.form_id)
                            /\ UNCHANGED failed
                            /\ NextItem

\* line 136: the result goes back to the upload handler
RecReturn ==
    /\ UNCHANGED extVars
    /\ rpc = "done"
    /\ rpc' = "idle"
    /\ ritems' = <<>>
    /\ ri' = 1
    /\ applied' = <<>>
    /\ failed' = <<>>
    /\ rattempts' = <<>>
    /\ UNCHANGED << patchVars, dbVars >>

(* ---- MotecFileService.write_ldx / read_ldx (motec/file_service.py) ----------------- *)
\* Python's None; every other text value is a sequence of atoms
None == << "<None>" >>

Truthy(v) == v # None /\ v # <<>>

\* an XML element: tag, attributes as (key, value) pairs, text, children
Elem(tag, attrs, text, kids) == [tag |-> tag, attrs |-> attrs, text |-> text, kids |-> kids]

NoElem == Elem("", {}, None, <<>>)

\* Element.get(key, default)
Get(e, key, default) ==
    IF \E a \in e.attrs : a[1] = key
    THEN (CHOOSE a \in e.attrs : a[1] = key)[2]
    ELSE default

\* all descendants in document order
RECURSIVE DescSeq(_)
DescSeq(kids) ==
    IF Len(kids) = 0 THEN <<>>
    ELSE << Head(kids) >> \o DescSeq(Head(kids).kids) \o DescSeq(Tail(kids))

\* Element.findall(".//tag")
findall(e, tag) == SelectSeq(DescSeq(e.kids), LAMBDA x : x.tag = tag)

\* Element.findtext(tag, default): text of the first child with that tag
findtext(e, tag, default) ==
    LET hits == SelectSeq(e.kids, LAMBDA x : x.tag = tag) IN
    IF Len(hits) = 0 THEN default ELSE hits[1].text

OptAttr(key, v) == IF Truthy(v) THEN { << key, v >> } ELSE {}

\* write_ldx lines 169-207: the tree built from the model
ChannelElem(ch) ==
    Elem("Channel",
         { << "Name", ch.name >>, << "Units", ch.units >>, << "Source", ch.source >> }
            \cup OptAttr("Scaling", ch.scaling),
         None,
         IF Truthy(ch.math) THEN << Elem("Math", {}, ch.math, <<>>) >> ELSE <<>>)

WorksheetElem(ws) ==
    Elem("Worksheet",
         { << "Name", ws.name >>, << "Type", ws.type >> },
         None,
         [k \in 1..Len(ws.channels) |-> Elem("ChannelRef", { << "Name", ws.channels[k] >> }, None, <<>>)])

MetadataElem(item) ==
    Elem("Item", { << "Key", item.key >>, << "Value", item.value >> }, None, <<>>)

EncodeLdx(model) ==
    Elem("Workspace",
         { << "Name", model.workspace_name >> }
            \cup OptAttr("Project", model.project_name)
            \cup OptAttr("Car", model.car_name),
         None,
         << Elem("Channels", {}, None,
                 [k \in 1..Len(model.channels) |-> ChannelElem(model.channels[k])]) >>
         \o (IF Len(model.worksheets) > 0
             THEN << Elem("Worksheets", {}, None,
                          [k \in 1..Len(model.worksheets) |-> WorksheetElem(model.worksheets[k])]) >>
             ELSE <<>>)
         \o (IF Len(model.metadata) > 0
             THEN << Elem("Metadata", {}, None,
                          [k \in 1..Len(model.metadata) |-> MetadataElem(model.metadata[k])]) >>
             ELSE <<>>))

\* read_ldx lines 82-136 (the Python parser; rust_parser returns None when
\* the motec_parser extension is absent or fails)
DecodeChannel(e) ==
    [name    |-> Get(e, "Name", <<>>),
     units   |-> Get(e, "Units", <<>>),
     source  |-> Get(e, "Source", << "CAN" >>),
     scaling |-> Get(e, "Scaling", None),
     math    |-> findtext(e, "Math", None)]

DecodeWorksheet(e) ==
    LET refs == findall(e, "Channel") IN
    [name     |-> Get(e, "Name", <<>>),
     type     |-> Get(e, "Type", <<>>),
     channels |-> [k \in 1..Len(refs) |-> Get(refs[k], "Name", None)]]

DecodeMetadata(root) ==
    LET metas == SelectSeq(findall(root, "Metadata"), LAMBDA x : Get(x, "Key", <<>>) # <<>>) IN
    [k \in 1..Len(metas) |-> [key |-> Get(metas[k], "Key", <<>>), value |-> Get(metas[k], "Value", <<>>)]]

DecodeLdx(root) ==
    LET chans  == findall(root, "Channel")
        sheets == findall(root, "Worksheet")
    IN [workspace_name |-> Get(root, "Workspace", << "Default" >>),
        project_name   |-> Get(root, "Project", None),
        car_name       |-> Get(root, "Car", None),
        channels       |-> [k \in 1..Len(chans) |-> DecodeChannel(chans[k])],
        worksheets     |-> [k \in 1..Len(sheets) |-> DecodeWorksheet(sheets[k])],
        metadata       |-> DecodeMetadata(root)]

\* Python's "a or b"
Or(v, d) == IF Truthy(v) THEN v ELSE d

\* session_linker line 96: f"{car_id}_{date_str}_{session_name}.ldx"
LdxFileName(car_id, date_str, session_name) ==
    car_id \o << "_" >> \o date_str \o << "_" >> \o session_name \o << ".ldx" >>

\* write_ldx line 166: file_path.with_suffix('.ldx.tmp')
TempPath(path) == SubSeq(path, 1, Len(path) - 1) \o << ".ldx.tmp" >>

LdxMissing == [kind |-> "missing", root |-> NoElem]

LdxFile(root) == [kind |-> "xml", root |-> root]

\* models handed to write_ldx
Chan1 == [name |-> << "RPM" >>, units |-> << "rpm" >>, source |-> << "CAN" >>,
          scaling |-> None, math |-> None]
Chan2 == [name |-> << "Speed" >>, units |-> <<>>, source |-> << "derived" >>,
          scaling |-> << "2.0" >>, math |-> << "a", "+", "b" >>]

Sheet1 == [name |-> << "Main" >>, type |-> << "graph" >>, channels |-> << << "RPM" >> >>]
Sheet0 == [name |-> << "Empty" >>, type |-> <<>>, channels |-> <<>>]

NoModel == [workspace_name |-> <<>>, project_name |-> None, car_name |-> None,
            channels |-> <<>>, worksheets |-> <<>>, metadata |-> <<>>]

Plain == [NoModel EXCEPT !.workspace_name = << "Default" >>]

Meta1 == << [key |-> << "Track" >>, value |-> << "Laguna" >>] >>

LdxModels ==
    { NoModel,
      Plain,
      [Plain EXCEPT !.workspace_name = << "Car1", "_Workspace" >>],
      [Plain EXCEPT !.project_name = << "P" >>, !.car_name = << "Car1" >>],
      [Plain EXCEPT !.channels = << Chan1 >>],
      [Plain EXCEPT !.channels = << Chan1, Chan2 >>],
      [Plain EXCEPT !.worksheets = << Sheet0 >>],
      [Plain EXCEPT !.channels = << Chan1 >>, !.worksheets = << Sheet1 >>],
      [Plain EXCEPT !.metadata = Meta1],
      [workspace_name |-> << "Car1", "_Workspace" >>, project_name |-> << "P" >>,
       car_name |-> << "Car1" >>, channels |-> << Chan1, Chan2 >>,
       worksheets |-> << Sheet1 >>, metadata |-> Meta1] }


\* the file a path holds before the call
OldLdx == LdxFile(EncodeLdx([NoModel EXCEPT !.workspace_name = << "Old" >>]))

NoReadBack == [ran |-> FALSE, model |-> NoModel, result |-> NoModel]

\* channel mappings of the car (MotecChannelConfig), one of them disabled
Cfg1 == [internal_name |-> << "rpm" >>, motec_name |-> << "RPM" >>, units |-> << "rpm" >>,
         source |-> << "CAN" >>, scaling |-> None, math_expression |-> None, enabled |-> TRUE]
Cfg2 == [internal_name |-> << "spd" >>, motec_name |-> << "Speed" >>, units |-> <<>>,
         source |-> << "derived" >>, scaling |-> None, math_expression |-> None, enabled |-> FALSE]

\* session configs the linker generates an LDX for (MotecSessionConfig)
Sessions ==
    [car_id       : { << "Car1" >> },
     track_id     : { None, << "Laguna" >> },
     driver       : { None },
     date         : { << "2024-01-01" >> },
     session_name : { None, << "s1" >> },
     channels     : { <<>>, << Cfg1, Cfg2 >> }]

SessionPath(s) == LdxFileName(s.car_id, s.date, Or(s.session_name, << "session" >>))

\* _channels_to_ldx_format: the enabled mappings
ChannelsToLdxFormat(channels) ==
    LET en == SelectSeq(channels, LAMBDA ch : ch.enabled) IN
    [k \in 1..Len(en) |-> [name |-> en[k].motec_name, units |-> en[k].units,
                           source |-> en[k].source, scaling |-> en[k].scaling,
                           math |-> en[k].math_expression]]

\* session_linker lines 114-125
SessionModel(s) ==
    [workspace_name |-> s.car_id \o << "_Workspace" >>,
     project_name   |-> s.car_id \o << "_Project" >>,
     car_name       |-> s.car_id,
     channels       |-> ChannelsToLdxFormat(s.channels),
     worksheets     |-> <<>>,
     metadata       |-> << [key |-> << "Track" >>,   value |-> Or(s.track_id, <<>>)],
                           [key |-> << "Driver" >>,  value |-> Or(s.driver, <<>>)],
                           [key |-> << "Date" >>,    value |-> Or(s.date, <<>>)],
                           [key |-> << "Session" >>, value |-> Or(s.session_name, <<>>)] >>]

OutPaths == { SessionPath(s) : s \in Sessions }

LdxPaths == OutPaths \cup { TempPath(p) : p \in OutPaths }

NoPath == <<>>

\* session_linker lines 100-111: only the policy "never" refuses an existing file
OverwriteRefused_ifSafe(p) == p \in { "never", "ifSafe" }
OverwriteRefused(p) == p = "never"

WriteReturnWith(result) ==
    /\ wres' = result
    /\ wpc' = "idle"

\* the except handler of write_ldx: unlink the temp file, raise IOError
WriteFailed ==
    /\ lfs' = [lfs EXCEPT ![TempPath(wpath)] = LdxMissing]
    /\ WriteReturnWith("IOError")

\* write_ldx lines 158-211: validate the model, build the tree
WriteBegin(caller, path, model) ==
    /\ wpc = "idle"
    /\ wres = "none"
    /\ nwrite < MaxWrites
    /\ nwrite' = nwrite + 1
    /\ wcaller' = caller
    /\ wpath' = path
    /\ wmodel' = model
    /\ wold' = lfs[path]
    /\ wseen' = "none"
    /\ UNCHANGED << lfs, policy, rback >>
    /\ IF Truthy(model.workspace_name)
       THEN wpc' = "write" /\ wres' = "none"
       ELSE WriteReturnWith("ValueError")

\* line 213: tree.write(temp_path)
WriteTemp ==
    /\ wpc = "write"
    /\ UNCHANGED << wmodel, wold, wseen, wcaller, wpath, nwrite, policy, rback, notCodec >>
    /\ \E ok \in BOOLEAN :
        IF ok
        THEN /\ lfs' = [lfs EXCEPT ![TempPath(wpath)] = LdxFile(EncodeLdx(wmodel))]
             /\ wpc' = "validate"
             /\ UNCHANGED wres
        ELSE WriteFailed

\* lines 216-220: the temp file must parse
ValidateTemp ==
    /\ wpc = "validate"
    /\ UNCHANGED << wmodel, wold, wseen, wcaller, wpath, nwrite, policy, rback, notCodec >>
    /\ \E readable \in BOOLEAN :
        IF readable /\ lfs[TempPath(wpath)].kind = "xml"
        THEN /\ wpc' = "unlink"
             /\ UNCHANGED << lfs, wres >>
        ELSE WriteFailed

\* lines 223-224: if file_path.exists(): file_path.unlink()
UnlinkTarget ==
    /\ wpc = "unlink"
    /\ UNCHANGED << wmodel, wold, wseen, wcaller, wpath, nwrite, policy, rback, notCodec >>
    /\ IF lfs[wpath].kind = "missing"
       THEN /\ wpc' = "replace"
            /\ UNCHANGED << lfs, wres >>
       ELSE \E ok \in BOOLEAN :
            IF ok
            THEN /\ lfs' = [lfs EXCEPT ![wpath] = LdxMissing]
                 /\ wpc' = "replace"
                 /\ UNCHANGED wres
            ELSE WriteFailed

\* line 225: temp_path.replace(file_path)
ReplaceTemp ==
    /\ wpc = "replace"
    /\ UNCHANGED << wmodel, wold, wseen, wcaller, wpath, nwrite, policy, rback, notCodec >>
    /\ \E ok \in BOOLEAN :
        IF ok
        THEN /\ lfs' = [lfs EXCEPT ![wpath] = lfs[TempPath(wpath)],
                                   ![TempPath(wpath)] = LdxMissing]
             /\ WriteReturnWith("ok")
        ELSE WriteFailed

\* write_ldx(path, model) called directly
WriteLdxCall ==
    /\ \E path \in OutPaths, model \in LdxModels : WriteBegin("api", path, model)
    /\ UNCHANGED notCodec

\* _generate_ldx_for_session(session_config)
GenerateLdx ==
    /\ UNCHANGED notCodec
    /\ \E s \in Sessions :
        IF lfs[SessionPath(s)].kind # "missing" /\ OverwriteRefused(policy)
        THEN /\ wpc = "idle"
             /\ wres = "none"
             /\ nwrite < MaxWrites
             /\ nwrite' = nwrite + 1
             /\ wcaller' = "linker"
             /\ wpath' = SessionPath(s)
             /\ wmodel' = SessionModel(s)
             /\ wold' = lfs[SessionPath(s)]
             /\ wseen' = "none"
             /\ WriteReturnWith("FileExistsError")
             /\ UNCHANGED << lfs, policy, rback >>
        ELSE WriteBegin("linker", SessionPath(s), SessionModel(s))

\* read_ldx of the file a successful write_ldx has just produced
ReadLdx ==
    /\ wpc = "idle"
    /\ wres = "ok"
    /\ lfs[wpath].kind = "xml"
    /\ rback' = [ran |-> TRUE, model |-> wmodel, result |-> DecodeLdx(lfs[wpath].root)]
    /\ rback' # rback
    /\ UNCHANGED << lfs, wpc, wmodel, wres, wold, wseen, wcaller, wpath, nwrite, policy, notCodec >>

\* the caller has the result of the call
WriteReturn ==
    /\ wpc = "idle"
    /\ wres # "none"
    /\ wres' = "none"
    /\ wmodel' = NoModel
    /\ wold' = LdxMissing
    /\ wseen' = "none"
    /\ wcaller' = "api"
    /\ wpath' = NoPath
    /\ rback' = NoReadBack
    /\ UNCHANGED << lfs, wpc, nwrite, policy, notCodec >>

\* another process opening the path while write_ldx runs
LdxReader ==
    /\ wpc # "idle"
    /\ wseen' = IF lfs[wpath] = wold THEN "old"
                ELSE IF lfs[wpath] = LdxFile(EncodeLdx(wmodel)) THEN "new"
                ELSE "gone"
    /\ wseen' # wseen
    /\ UNCHANGED << lfs, wpc, wmodel, wres, wold, wcaller, wpath, nwrite, policy, rback, notCodec >>

InitCodec(policies, olds) ==
    /\ \E existing \in SUBSET OutPaths :
        /\ existing \in olds
        /\ lfs = [p \in LdxPaths |-> IF p \in existing THEN OldLdx ELSE LdxMissing]
    /\ wpc = "idle"
    /\ wmodel = NoModel
    /\ wres = "none"
    /\ wold = LdxMissing
    /\ wseen = "none"
    /\ wcaller = "api"
    /\ wpath = NoPath
    /\ nwrite = 0
    /\ policy \in policies
    /\ rback = NoReadBack


(* ---- LD log files (file_service.py, session_linker.py) ------------------------------- *)
\* the scan directory, names in the order sorted() gives them
LdNames == << "a.ld", "b.ld", "c.ld" >>
LdNameSet == { LdNames[i] : i \in 1..Len(LdNames) }

\* what a name holds: nothing, a regular file of some size, or a regular file
\* that stat() accepts and open() refuses
LdAbsent == [kind |-> "absent", size |-> 0]
LdFile(size) == [kind |-> "file", size |-> size]
LdUnreadable(size) == [kind |-> "unreadable", size |-> size]

LdSizes == { 0, 100, 511, 512 }

LdStates == { LdAbsent, LdUnreadable(600) } \cup { LdFile(n) : n \in LdSizes }

\* models.py lines 127-141: the fields of the MotecLdMetadata dataclass
MotecLdMetadataFields ==
    { "file_path", "file_size", "duration", "sample_rate", "start_time", "end_time",
      "channels", "car_id", "track_id", "driver", "session_name", "valid", "error" }

HasField(name) == name \in MotecLdMetadataFields

\* lines 249-253: MotecLdMetadata(file_path, file_size=0, valid=False)
NewLdMetadata ==
    [file_size |-> 0, valid |-> FALSE, error |-> None, car_id |-> None, track_id |-> None,
     driver |-> None, session_name |-> None]

\* lines 247-297, the Python path (rust_parser gives None without the extension)
read_ld_metadata(f) ==
    IF f.kind = "absent"
    THEN [NewLdMetadata EXCEPT !.error = << "LD file not found" >>]
    ELSE IF f.kind = "unreadable"
    THEN \* stat() has set file_size, open() raises, the handler records it
         [NewLdMetadata EXCEPT !.file_size = f.size,
                               !.error = << "Error reading LD file" >>]
    ELSE [NewLdMetadata EXCEPT !.file_size = f.size,
                               !.valid = (f.size > 0)]

\* lines 309-321: exists, is a regular file, at least 512 bytes
validate_ld(f) ==
    /\ f.kind # "absent"
    /\ f.size >= 512

\* lines 344-356: the regular files matching the pattern, sorted
discover_ld_files(dir) ==
    SelectSeq(LdNames, LAMBDA n : dir[n].kind # "absent")

\* config_service.py line 90: self._channel_mappings.get(car_id, [])
get_channel_mappings(mappings, car_id) ==
    IF car_id \in DOMAIN mappings THEN mappings[car_id] ELSE <<>>

NoSession ==
    [car_id |-> None, track_id |-> None, driver |-> None, date |-> None,
     session_name |-> None, channels |-> <<>>, ld_file_path |-> ""]

Today == << "today" >>

Raised(exc) == [raised |-> exc, session |-> NoSession]

\* session_linker.py lines 52-74 with auto_generate_ldx off (its default)
link_ld_to_session(dir, mappings, ld_file_path, car_id, session_id, track_id, driver, date) ==
    IF ~validate_ld(dir[ld_file_path])
    THEN Raised("ValueError")
    ELSE LET metadata == read_ld_metadata(dir[ld_file_path]) IN
         \* line 64: date or metadata.date or datetime.now().strftime(...)
         IF ~Truthy(date) /\ ~HasField("date")
         THEN Raised("AttributeError")
         ELSE [raised |-> "none",
               session |-> [car_id |-> car_id,
                            track_id |-> Or(track_id, metadata.track_id),
                            driver |-> Or(driver, metadata.driver),
                            date |-> Or(date, Today),
                            session_name |-> Or(session_id, metadata.session_name),
                            channels |-> get_channel_mappings(mappings, car_id),
                            ld_file_path |-> ld_file_path]]

\* lines 164-183: one pass of the loop body; the arguments of the call are
\* evaluated first, metadata.date among them
LinkDiscovered(dir, mappings, ld_file, car_id) ==
    LET metadata == read_ld_metadata(dir[ld_file])
        session_car_id == Or(car_id, Or(metadata.car_id, << "default" >>))
    IN IF ~HasField("date")
       THEN Raised("AttributeError")
       ELSE link_ld_to_session(dir, mappings, ld_file, session_car_id,
                               metadata.session_name, metadata.track_id, metadata.driver, None)

\* lines 160-185: every file is tried, a file whose pass raises is skipped
RECURSIVE LinkAll(_, _, _, _)
LinkAll(dir, mappings, ld_files, car_id) ==
    IF ld_files = <<>> THEN <<>>
    ELSE LET r == LinkDiscovered(dir, mappings, Head(ld_files), car_id)
             rest == LinkAll(dir, mappings, Tail(ld_files), car_id)
         IN IF r.raised = "none" THEN << r.session >> \o rest ELSE rest

discover_and_link_sessions(dir, mappings, car_id) ==
    LinkAll(dir, mappings, discover_ld_files(dir), car_id)

NoLdMeta == [ran |-> FALSE, file |-> LdAbsent, raised |-> FALSE, metadata |-> NewLdMetadata]
NoLinked == [ran |-> FALSE, ld_file |-> "", date |-> None, result |-> Raised("none")]
NoBatch  == [ran |-> FALSE, car_id |-> None, raised |-> FALSE, sessions |-> <<>>]

LdCars  == { None, << "Car1" >> }
LdDates == { None, << "2024-01-01" >> }

ReadLdMetadata ==
    /\ \E n \in LdNameSet :
        ldmeta' = [ran |-> TRUE, file |-> ldfiles[n], raised |-> FALSE,
                   metadata |-> read_ld_metadata(ldfiles[n])]
    /\ ldmeta' # ldmeta
    /\ UNCHANGED << ldfiles, linked, batch, notLd >>

LinkLdToSession ==
    /\ \E n \in LdNameSet, date \in LdDates :
        linked' = [ran |-> TRUE, ld_file |-> n, date |-> date,
                   result |-> link_ld_to_session(ldfiles, channel_mappings, n, << "Car1" >>,
                                                 None, None, None, date)]
    /\ linked' # linked
    /\ UNCHANGED << ldfiles, ldmeta, batch, notLd >>

DiscoverAndLinkSessions ==
    /\ \E car_id \in LdCars :
        batch' = [ran |-> TRUE, car_id |-> car_id, raised |-> FALSE,
                  sessions |-> discover_and_link_sessions(ldfiles, channel_mappings, car_id)]
    /\ batch' # batch
    /\ UNCHANGED << ldfiles, ldmeta, linked, notLd >>

InitLd(dirs) ==
    /\ ldfiles \in dirs
    /\ ldmeta = NoLdMeta
    /\ linked = NoLinked
    /\ batch = NoBatch

LdDirs == [LdNameSet -> LdStates]

(* ---- channel mappings (config_service.py) --------------------------------------------- *)
Cars == { << "Car1" >>, << "Car2" >> }

\* MotecChannelConfig values handed to the service
ChannelConfigs ==
    { [Cfg1 EXCEPT !.motec_name = m, !.enabled = e] :
        m \in { << "RPM" >>, << "Engine", " ", "RPM" >> }, e \in BOOLEAN }
    \cup { [Cfg2 EXCEPT !.enabled = e] : e \in BOOLEAN }

ChannelLists ==
    UNION { [1..k -> ChannelConfigs] : k \in 0..MaxMappings }

InternalNames == { c.internal_name : c \in ChannelConfigs }

\* first index of a mapping with the internal name, 0 when there is none
IndexOfInternal(channels, internal_name) ==
    IF \E i \in 1..Len(channels) : channels[i].internal_name = internal_name
    THEN CHOOSE i \in 1..Len(channels) :
            /\ channels[i].internal_name = internal_name
            /\ \A j \in 1..(i - 1) : channels[j].internal_name # internal_name
    ELSE 0

NoHeld == [made |-> FALSE, session |-> NoSession, shares |-> FALSE]

\* the stored list of a car is rebound to another list object: a session
\* holding the old object keeps it as it is
Rebound(h, car_id) ==
    IF h.made /\ h.shares /\ h.session.car_id = car_id
    THEN [h EXCEPT !.shares = FALSE]
    ELSE h

\* the stored list of a car is changed in place: a session holding the
\* object sees the change
MutatedInPlace(h, car_id, channels) ==
    IF h.made /\ h.shares /\ h.session.car_id = car_id
    THEN [h EXCEPT !.session.channels = channels]
    ELSE h

\* lines 100-101: the list is stored as given, then saved
SetChannelMappingsOf(cars, lists) ==
    /\ \E car_id \in cars, channels \in lists :
        /\ channel_mappings' = [channel_mappings EXCEPT ![car_id] = channels]
        /\ mapkeys' = mapkeys \cup { car_id }
        /\ held' = Rebound(held, car_id)
    /\ UNCHANGED << removed, notMap >>

SetChannelMappings == SetChannelMappingsOf(Cars, ChannelLists)

\* lines 111-125: replace the first mapping with the same internal name,
\* append when there is none; the stored list object is changed in place
AddChannelMappingOf(cars, configs) ==
    /\ \E car_id \in cars, channel \in configs :
        LET cur == channel_mappings[car_id]
            idx == IndexOfInternal(cur, channel.internal_name)
            new == IF idx # 0 THEN [cur EXCEPT ![idx] = channel] ELSE Append(cur, channel)
        IN /\ channel_mappings' = [channel_mappings EXCEPT ![car_id] = new]
           /\ mapkeys' = mapkeys \cup { car_id }
           /\ held' = MutatedInPlace(held, car_id, new)
    /\ UNCHANGED << removed, notMap >>

AddChannelMapping == AddChannelMappingOf(Cars, ChannelConfigs)

\* lines 138-150: without a key return False; else rebind the key to a new
\* list without the mappings of the internal name
RemoveChannelMappingOf(cars, names) ==
    /\ \E car_id \in cars, internal_name \in names :
        LET cur == channel_mappings[car_id]
            kept == SelectSeq(cur, LAMBDA ch : ch.internal_name # internal_name)
        IN /\ channel_mappings' = [channel_mappings EXCEPT ![car_id] = kept]
           /\ removed' = IF Len(kept) < Len(cur) THEN "true" ELSE "false"
           /\ held' = IF car_id \in mapkeys THEN Rebound(held, car_id) ELSE held
    /\ UNCHANGED << mapkeys, notMap >>

RemoveChannelMapping == RemoveChannelMappingOf(Cars, InternalNames)

\* session_linker.py lines 59-66 and config_service.py lines 209-226: the
\* session's channels is what get_channel_mappings returned, the stored list
\* object itself when the car has a key and a new empty list otherwise
LinkSession ==
    /\ ~held.made
    /\ \E n \in LdNameSet, car_id \in Cars :
        LET r == link_ld_to_session(ldfiles, channel_mappings, n, car_id,
                                    None, None, None, << "2024-01-01" >>) IN
        /\ r.raised = "none"
        /\ held' = [made |-> TRUE, session |-> r.session, shares |-> car_id \in mapkeys]
    /\ UNCHANGED << channel_mappings, removed, mapkeys, notMap >>

\* the mapping calls made while a session of Car1 is held
SessionCars == { << "Car1" >> }
SessionConfigs == { Cfg1, Cfg2, [Cfg1 EXCEPT !.enabled = FALSE] }
SessionLists == { <<>> } \cup { << c >> : c \in SessionConfigs }

SessionSetChannelMappings == SetChannelMappingsOf(SessionCars, SessionLists)
SessionAddChannelMapping == AddChannelMappingOf(SessionCars, SessionConfigs)
SessionRemoveChannelMapping == RemoveChannelMappingOf(SessionCars, InternalNames)

\* lines 31-51: no mappings file yet, an empty one is created
InitMap ==
    /\ channel_mappings = [c \in Cars |-> <<>>]
    /\ removed = "none"
    /\ mapkeys = {}
    /\ held = NoHeld

(* ---- NAS discovery (nas_discovery.py) ------------------------------------------------- *)
Threads == { "bg", "req" }

NoStamp == -1

NoScanResult == [status |-> "none", files |-> <<>>]

\* scan_interval_ms in ticks of the clock
ScanInterval == 4

\* what the NAS scan directories hold
NasFiles == << "run1.ld", "run1.ldx" >>

\* the predicates pathlib.Path offers; lines 214 and 260 call is_relative()
PathMethods == { "is_absolute", "is_relative_to", "is_dir", "is_file", "exists" }

\* lines 213-218: building scan_dirs raises AttributeError
ScanDirsRaise == "is_relative" \notin PathMethods

InBody(t) == tpc[t] \in { "check", "discover", "glob" }

Scanning(t) == tpc[t] \in { "discover", "glob" }

\* leaving the with block: the lock is released and the result returned; the
\* background loop then sleeps for the interval (line 385)
ScanReturn(t, status, files) ==
    /\ tres' = [tres EXCEPT ![t] = [status |-> status, files |-> files]]
    /\ tpc' = [tpc EXCEPT ![t] = "idle"]
    /\ scan_lock' = "free"
    /\ bgwake' = IF t = "bg" THEN clock + ScanInterval ELSE bgwake

\* scan_for_files(force) is called: by the loop of lines 378-385 with the
\* default force, by a request with either
ScanCall(t) ==
    /\ tpc[t] = "idle"
    /\ t = "bg" => clock >= bgwake
    /\ \E force \in BOOLEAN :
        /\ t = "bg" => ~force
        /\ tforce' = [tforce EXCEPT ![t] = force]
    /\ tpc' = [tpc EXCEPT ![t] = "wait"]
    /\ tres' = [tres EXCEPT ![t] = NoScanResult]
    /\ toverlap' = [toverlap EXCEPT ![t] = \E u \in Threads \ { t } : Scanning(u)]
    /\ UNCHANGED << clock, nasUp, nas_status, discovered, scan_lock, bgwake, last_success,
                    notNas >>

\* line 141: with self.scan_lock blocks until the lock is free
ScanAcquire(t) ==
    /\ tpc[t] = "wait"
    /\ scan_lock = "free"
    /\ scan_lock' = t
    /\ tpc' = [tpc EXCEPT ![t] = "check"]
    /\ UNCHANGED << clock, nasUp, nas_status, discovered, tforce, tres, toverlap, bgwake,
                    last_success, notNas >>

\* lines 143-153: the cache rule on nas_status["last_scan"]
ScanCheck(t) ==
    /\ tpc[t] = "check"
    /\ IF /\ ~tforce[t]
          /\ nas_status.last_scan # NoStamp
          /\ (clock - nas_status.last_scan) * 2 < ScanInterval
       THEN ScanReturn(t, "cached", discovered)
       ELSE /\ tpc' = [tpc EXCEPT ![t] = "discover"]
            /\ UNCHANGED << tres, scan_lock, bgwake >>
    /\ UNCHANGED << clock, nasUp, nas_status, discovered, tforce, toverlap, last_success,
                    notNas >>

\* lines 156-179: discover_nas_path, then nas_status with last_scan = now
ScanDiscover(t) ==
    /\ tpc[t] = "discover"
    /\ IF ~nasUp
       THEN /\ nas_status' = [connected |-> FALSE, last_scan |-> clock, error |-> TRUE]
            /\ ScanReturn(t, "error", <<>>)
       ELSE /\ nas_status' = [connected |-> TRUE, last_scan |-> clock, error |-> FALSE]
            /\ tpc' = [tpc EXCEPT ![t] = "glob"]
            /\ UNCHANGED << tres, scan_lock, bgwake >>
    /\ UNCHANGED << clock, nasUp, discovered, tforce, toverlap, last_success, notNas >>

\* lines 182-205: _scan_ld_files and _scan_ldx_files under the try
ScanGlob(t) ==
    /\ tpc[t] = "glob"
    /\ IF ScanDirsRaise
       THEN /\ nas_status' = [nas_status EXCEPT !.error = TRUE]
            /\ ScanReturn(t, "error", discovered)
            /\ UNCHANGED << discovered, last_success >>
       ELSE LET files == IF nasUp THEN NasFiles ELSE <<>> IN
            /\ discovered' = files
            /\ last_success' = nas_status.last_scan
            /\ ScanReturn(t, "success", files)
            /\ UNCHANGED nas_status
    /\ UNCHANGED << clock, nasUp, tforce, toverlap, notNas >>

\* time passes, at any point of any call
Tick ==
    /\ clock < MaxClock
    /\ clock' = clock + 1
    /\ UNCHANGED << nasUp, nas_status, discovered, scan_lock, tpc, tforce, tres, toverlap,
                    bgwake, last_success, notNas >>

\* the NAS mount appears or disappears
NasChange ==
    /\ nasUp' = ~nasUp
    /\ UNCHANGED << clock, nas_status, discovered, scan_lock, tpc, tforce, tres, toverlap,
                    bgwake, last_success, notNas >>

\* lines 45-59: the state after construction
InitNas(ups) ==
    /\ clock = 0
    /\ nasUp \in ups
    /\ nas_status = [connected |-> FALSE, last_scan |-> NoStamp, error |-> FALSE]
    /\ discovered = <<>>
    /\ scan_lock = "free"
    /\ tpc = [t \in Threads |-> "idle"]
    /\ tforce = [t \in Threads |-> FALSE]
    /\ tres = [t \in Threads |-> NoScanResult]
    /\ toverlap = [t \in Threads |-> FALSE]
    /\ bgwake = 0
    /\ last_success = NoStamp

(* ---- specifications ----------------------------------------------------------------- *)
InitPatcher(docs) ==
    /\ \E d \in docs : /\ fs = [p \in Paths |-> IF p = "ldx" THEN Uploaded(d) ELSE Missing]
                           /\ orig = Uploaded(d)
    /\ upc = "idle"
    /\ uargs = NoArgs
    /\ utree = NoDoc
    /\ ures = "none"
    /\ ucaller = "api"
    /\ upre = Missing
    /\ ucommitted = FALSE
    /\ seen = "none"
    /\ npatch = 0
    /\ okPrev = NoOk
    /\ okLast = NoOk
    /\ imported = NotImported

(* ---- main.api_upload_motec_file: concurrent uploads ------------------------------ *)
\* the upload requests in flight; each saves its own file and reconciles it
Uploads == { 1, 2 }

\* main.py lines 866-881: the car the uploaded file was identified as, None
\* when identification fails
IdentifiedCars == { NoCar, "Car1", "Car2" }

NoUpload == [pc |-> "idle", car |-> NoCar, items |-> <<>>, i |-> 1,
             patched |-> <<>>, applied |-> <<>>, failed |-> <<>>]

\* main.py lines 925-934 and queue_auto_applier.py lines 35-57: the handler
\* passes the identified car on; the applier fetches the pending rows
UploadStart(u) ==
    /\ uploads[u].pc = "idle"
    /\ \E car \in IdentifiedCars :
        LET items == get_queue(queue, QUEUE_STATUS_PENDING, car) IN
        uploads' = [uploads EXCEPT ![u] = [NoUpload EXCEPT !.pc = IF items = <<>> THEN "done" ELSE "loop",
                                                           !.car = car,
                                                           !.items = items]]
    /\ UNCHANGED << dbVars, notUpload >>

UploadNext(up) ==
    [up EXCEPT !.i = up.i + 1, !.pc = IF up.i = Len(up.items) THEN "done" ELSE "loop"]

UploadItemFailed(up) ==
    UploadNext([up EXCEPT !.failed = Append(up.failed, up.items[up.i].form_id)])

\* queue_auto_applier.py lines 60-134, one row: patch the uploaded file (a
\* synchronous call), then record the value and mark the row auto-applied
UploadItem(u) ==
    LET up == uploads[u]
        item == up.items[up.i] IN
    /\ up.pc = "loop"
    /\ UNCHANGED << status_default, plast, notUpload >>
    /\ \E success \in { "true", "false", "raise" } :
        IF success # "true"
        THEN /\ uploads' = [uploads EXCEPT ![u] = UploadItemFailed(up)]
             /\ UNCHANGED << queue, parameters, history >>
        ELSE \E writeLocked \in BOOLEAN, markRaises \in BOOLEAN :
            LET u1 == [up EXCEPT !.patched = Append(up.patched, item.form_id)]
                r  == update_parameter(parameters, history, item.parameter_name,
                                       item.new_value, item.form_id, writeLocked) IN
            /\ parameters' = r.parameters
            /\ history' = r.history
            /\ IF ~r.ok
               THEN /\ ~markRaises
                    /\ uploads' = [uploads EXCEPT ![u] = UploadItemFailed(u1)]
                    /\ UNCHANGED queue
               ELSE IF markRaises
               THEN /\ uploads' = [uploads EXCEPT ![u] = UploadItemFailed(u1)]
                    /\ UNCHANGED queue
               ELSE /\ queue' = SetStatus(queue, item.form_id, QUEUE_STATUS_AUTO_APPLIED)
                    /\ uploads' = [uploads EXCEPT ![u] =
                                     UploadNext([u1 EXCEPT !.applied = Append(u1.applied, item.form_id)])]

\* queue_auto_applier.py line 136 and main.py lines 936-942: the response
UploadReturn(u) ==
    /\ uploads[u].pc = "done"
    /\ uploads' = [uploads EXCEPT ![u].pc = "returned"]
    /\ UNCHANGED << dbVars, notUpload >>

InitUploads == uploads = [u \in Uploads |-> NoUpload]

(* ---- MotecTranslator.parameters_to_ldx / merge_ldx_with_parameters ---------------- *)
\* A parameter record: parameter_name, current_value and the optional
\* _original_id and _field keys, <<>> when the record has none.
Record(name, value, original_id, field) ==
    [parameter_name |-> name, current_value |-> value, original_id |-> original_id, field |-> field]

\* lines 205-209: the Id of a details record
DetailsOriginalId(param) ==
    IF param.original_id # <<>> THEN param.original_id
    ELSE ReplaceAtom(param.parameter_name.rest, "_", " ")

\* lines 201-216: details_params, one entry per record
RECURSIVE DetailsParams(_)
DetailsParams(records) ==
    IF records = <<>> THEN <<>>
    ELSE LET param == Head(records) IN
         IF param.parameter_name.prefix = "ldx_details_"
         THEN << [Id |-> DetailsOriginalId(param), Value |-> param.current_value] >>
                 \o DetailsParams(Tail(records))
         ELSE DetailsParams(Tail(records))

\* lines 218-233: math_params, keyed by _original_id in insertion order
RECURSIVE MathParams(_, _)
MathParams(records, acc) ==
    IF records = <<>> THEN acc
    ELSE LET param == Head(records)
             i == FirstIn(acc, { param.original_id })
             acc1 == IF i # 0 THEN acc
                     ELSE Append(acc, [Id |-> param.original_id, Scale |-> <<"1">>, Offset |-> <<"0">>])
             j == FirstIn(acc1, { param.original_id })
             acc2 == IF param.field = <<"scale">> THEN [acc1 EXCEPT ![j].Scale = param.current_value]
                     ELSE IF param.field = <<"offset">> THEN [acc1 EXCEPT ![j].Offset = param.current_value]
                     ELSE acc1
         IN IF param.parameter_name.prefix = "ldx_math_"
            THEN MathParams(Tail(records), acc2)
            ELSE MathParams(Tail(records), acc)

\* lines 235-247: descriptor_params, keyed by _original_id in insertion order
RECURSIVE DescriptorParams(_, _)
DescriptorParams(records, acc) ==
    IF records = <<>> THEN acc
    ELSE LET param == Head(records)
             i == FirstIn(acc, { param.original_id })
             acc1 == IF i # 0 THEN acc
                     ELSE Append(acc, [Id |-> param.original_id, DPS |-> <<"4">>, Unit |-> <<>>])
             j == FirstIn(acc1, { param.original_id })
             acc2 == IF param.field = <<"display", "_", "dps">>
                     THEN [acc1 EXCEPT ![j].DPS = param.current_value]
                     ELSE acc1
         IN IF param.parameter_name.prefix = "ldx_desc_"
            THEN DescriptorParams(Tail(records), acc2)
            ELSE DescriptorParams(Tail(records), acc)

\* lines 190-325: the document is built from the records and the marker
\* groups handed in, and from nothing else
parameters_to_ldx(records, preserve_markers, marker_groups) ==
    [doc |-> [layers     |-> TRUE,
              hasDetails |-> DetailsParams(records) # <<>>,
              details    |-> DetailsParams(records),
              math       |-> MathParams(records, <<>>),
              desc       |-> DescriptorParams(records, <<>>)],
     marker_groups |-> IF preserve_markers THEN marker_groups ELSE <<>>]

MergeStrategies == { "parameters_override", "ldx_override", "merge" }

\* lines 346-364: of the parsed template only the marker groups (and the
\* locale and version) reach parameters_to_ldx
merge_ldx_with_parameters(template, records, merge_strategy) ==
    LET keep == merge_strategy # "parameters_override" IN
    parameters_to_ldx(records, keep, IF keep THEN template.marker_groups ELSE <<>>)

\* the template LDX files: a document and its MarkerGroup elements
Templates ==
    { [doc |-> DocFull,      marker_groups |-> << [name |-> "Laps", markers |-> << "m1", "m2" >>] >>],
      [doc |-> DocOtherForm, marker_groups |-> <<>>],
      [doc |-> DocNoDetails, marker_groups |-> << [name |-> "Laps", markers |-> <<>>] >>] }

MergeRecords ==
    { Record(PName("ldx_details_", <<"Fastest", "_", "Time">>), <<"54">>, <<>>, <<>>),
      Record(PName("ldx_math_", <<"Gear", "_", "Ratio", "_", "scale">>), <<"54">>,
             <<"Gear", " ", "Ratio">>, <<"scale">>),
      Record(PName("ldx_desc_", <<"Gear", "_", "Ratio", "_", "dps">>), <<"54">>,
             <<"Gear", "_", "Ratio">>, <<"display", "_", "dps">>),
      Record(PName("", <<"tire", "_", "pressure", "_", "fl">>), <<"30", "PSI">>, <<>>, <<>>) }

\* the record lists handed to a merge: up to two distinct records
MergeParameters ==
    { <<>> } \cup { << r >> : r \in MergeRecords }
             \cup { << p[1], p[2] >> : p \in { q \in MergeRecords \X MergeRecords : q[1] # q[2] } }

NoMerge == [ran |-> FALSE, template |-> [doc |-> NoDoc, marker_groups |-> <<>>],
            parameters |-> <<>>, merge_strategy |-> "", out |-> [doc |-> NoDoc, marker_groups |-> <<>>]]

MergeLdxWithParameters ==
    /\ \E template \in Templates, records \in MergeParameters, merge_strategy \in MergeStrategies :
        merged' = [ran |-> TRUE, template |-> template, parameters |-> records,
                   merge_strategy |-> merge_strategy,
                   out |-> merge_ldx_with_parameters(template, records, merge_strategy)]
    /\ UNCHANGED notMerge

InitMerge == merged = NoMerge

(* ---- NasDiscoveryService._scan_ld_files / _scan_ldx_files ----------------------- *)
\* auto_populate.max_files_per_scan (line 41, default 1000), scaled down
MaxFilesPerScan == 2

\* files of the kind a directory of the layout holds, at most
MaxDirFiles == 3

\* A layout under the NAS root: how many matching files lie under <root>/ld
\* (or ldx), under <root>/data/ld, and elsewhere under the root.
ScanLayouts == [sub : 0..MaxDirFiles, data : 0..MaxDirFiles, other : 0..MaxDirFiles]

FilesIn(dir, n) == [k \in 1..n |-> << dir, k >>]

\* scan_dir.rglob(pattern): the files in the directory and below it
rglob(layout, scan_dir) ==
    CASE scan_dir = "sub"  -> FilesIn("sub", layout.sub)
      [] scan_dir = "data" -> FilesIn("data", layout.data)
      [] scan_dir = "base" -> FilesIn("sub", layout.sub) \o FilesIn("data", layout.data)
                                  \o FilesIn("other", layout.other)

\* lines 213-218 (260-265): base / <configured dir>.name, base / "ld",
\* base / "data" / "ld" and base; the configured ld_scan_dir data/motec/ld
\* has the name "ld"
scan_dirs == << "sub", "sub", "data", "base" >>

Take(seq, n) == SubSeq(seq, 1, IF Len(seq) < n THEN Len(seq) ELSE n)

\* lines 220-249 (267-287): every scan directory contributes its first
\* max_files_per_scan files to the one list
RECURSIVE CollectFiles(_, _, _)
CollectFiles(layout, dirs, max_files_per_scan) ==
    IF dirs = <<>> THEN <<>>
    ELSE Take(rglob(layout, Head(dirs)), max_files_per_scan)
            \o CollectFiles(layout, Tail(dirs), max_files_per_scan)

NoScanned == [ran |-> FALSE, kind |-> "", layout |-> [sub |-> 0, data |-> 0, other |-> 0],
              files |-> <<>>]

\* the loop of _scan_ld_files (kind "ld") or _scan_ldx_files (kind "ldx")
\* over the scan directories of a layout
ScanDirsLoop ==
    /\ \E kind \in { "ld", "ldx" }, layout \in ScanLayouts :
        scanned' = [ran |-> TRUE, kind |-> kind, layout |-> layout,
                    files |-> CollectFiles(layout, scan_dirs, MaxFilesPerScan)]
    /\ UNCHANGED notCap

InitCap == scanned = NoScanned

(* ---- NasDiscoveryService: start_background_scanning / stop_background_scanning ---- *)
\* loop threads one behaviour creates
MaxLoops == 3

LoopIds == 1..MaxLoops

Alive(l) == loops[l] \in { "check", "scan", "sleep" }

\* lines 359-367: nothing when self.running; else set it and start a new thread
StartBackgroundScanning ==
    /\ callpc = "idle"
    /\ ~running
    /\ scan_thread < MaxLoops
    /\ running' = TRUE
    /\ scan_thread' = scan_thread + 1
    /\ loops' = [loops EXCEPT ![scan_thread + 1] = "check"]
    /\ UNCHANGED << callpc, retired, notBg >>

\* lines 371-373: clear self.running, then join the thread started last
StopBackgroundScanning ==
    /\ callpc = "idle"
    /\ running' = FALSE
    /\ callpc' = "join"
    /\ UNCHANGED << scan_thread, loops, retired, notBg >>

\* line 373-374: join(timeout=5) returns when the thread has ended, or after
\* five seconds while the loop is in a scan or in its sleep of scan_interval_ms
JoinReturn ==
    /\ callpc = "join"
    /\ IF scan_thread = 0 THEN TRUE
       ELSE loops[scan_thread] \in { "dead", "scan", "sleep" }
    /\ callpc' = "idle"
    /\ retired' = 1..scan_thread
    /\ UNCHANGED << running, scan_thread, loops, notBg >>

\* line 378: while self.running
LoopCheck(l) ==
    /\ loops[l] = "check"
    /\ loops' = [loops EXCEPT ![l] = IF running THEN "scan" ELSE "dead"]
    /\ UNCHANGED << running, scan_thread, callpc, retired, notBg >>

\* lines 379-385: scan_for_files returns or raises, then time.sleep
LoopScan(l) ==
    /\ loops[l] = "scan"
    /\ loops' = [loops EXCEPT ![l] = "sleep"]
    /\ UNCHANGED << running, scan_thread, callpc, retired, notBg >>

\* line 385: the sleep ends, back to the loop test
LoopWake(l) ==
    /\ loops[l] = "sleep"
    /\ loops' = [loops EXCEPT ![l] = "check"]
    /\ UNCHANGED << running, scan_thread, callpc, retired, notBg >>

\* lines 54-55 with scan_on_startup off: no thread yet
InitBg ==
    /\ running = FALSE
    /\ scan_thread = 0
    /\ loops = [l \in LoopIds |-> "none"]
    /\ callpc = "idle"
    /\ retired = {}

InitDb ==
    /\ queue = <<>>
    /\ parameters = [n \in QueueNames |-> NoParam]
    /\ history = <<>>
    /\ plast = NoProcess

InitRec ==
    /\ rpc = "idle"
    /\ ritems = <<>>
    /\ ri = 1
    /\ applied = <<>>
    /\ failed = <<>>
    /\ rattempts = <<>>

InitMore ==
    /\ InitUploads
    /\ InitMerge
    /\ InitCap
    /\ InitBg

\* the components a specification leaves alone, at rest
InitExt ==
    /\ InitCodec({ "ifSafe" }, { {} })
    /\ InitNas({ FALSE })
    /\ InitLd({ [n \in LdNameSet |-> LdAbsent] })
    /\ InitMap
    /\ InitMore

InitCore ==
    /\ InitPatcher({ NoDoc })
    /\ InitDb
    /\ InitRec
    /\ status_default = CreateTableStatusDefault

\* the reconciler and the parameter store around one uploaded LDX file
Init ==
    /\ InitPatcher({ DocFull, NoDoc })
    /\ InitDb
    /\ InitRec
    /\ status_default \in { CreateTableStatusDefault, LegacyStatusDefault }
    /\ InitExt

Next == AddToQueue \/ RejectQueueItem \/ DeleteFile
        \/ RecStart \/ RecItemPatch \/ RecItemFinish \/ RecReturn
        \/ Backup \/ StageOpen \/ StageWrite \/ Replace \/ Verify

Spec == Init /\ [][Next]_vars

\* the same with the admin's queue endpoints (process, reject) alongside
NextStore == Next \/ ProcessQueueItem

SpecStore == Init /\ [][NextStore]_vars

\* direct patch calls on one LDX file, a concurrent reader and the importer
InitPatch ==
    /\ InitPatcher(InitDocs)
    /\ InitDb
    /\ InitRec
    /\ status_default = CreateTableStatusDefault
    /\ InitExt

NextPatch == ApiPatch \/ ApiPatchReturn \/ ReaderRead \/ ImportLdx
             \/ Backup \/ StageOpen \/ StageWrite \/ Replace \/ Verify

SpecPatch == InitPatch /\ [][NextPatch]_vars

\* direct patch calls on files whose ids are in one form or the other
InitLocate ==
    /\ InitPatcher({ DocFull, DocOtherForm })
    /\ InitDb
    /\ InitRec
    /\ status_default = CreateTableStatusDefault
    /\ InitExt

SpecLocate == InitLocate /\ [][NextPatch]_vars

\* write_ldx, read_ldx and the session linker's LDX generation on the
\* synthesized session paths
InitFiles ==
    /\ InitCore
    /\ InitCodec({ "never", "always", "ifSafe" }, SUBSET OutPaths)
    /\ InitNas({ FALSE })
    /\ InitLd({ [n \in LdNameSet |-> LdAbsent] })
    /\ InitMap
    /\ InitMore

NextFiles == WriteLdxCall \/ GenerateLdx \/ WriteTemp \/ ValidateTemp \/ UnlinkTarget
             \/ ReplaceTemp \/ ReadLdx \/ WriteReturn \/ LdxReader

SpecFiles == InitFiles /\ [][NextFiles]_vars

\* read_ld_metadata, link_ld_to_session and discover_and_link_sessions over
\* a scan directory of three names
InitLdSpec ==
    /\ InitCore
    /\ InitCodec({ "ifSafe" }, { {} })
    /\ InitNas({ FALSE })
    /\ InitLd(LdDirs)
    /\ InitMap
    /\ InitMore

NextLd == ReadLdMetadata \/ LinkLdToSession \/ DiscoverAndLinkSessions

SpecLd == InitLdSpec /\ [][NextLd]_vars

\* the channel mapping calls of MotecConfigService on two cars
InitMapSpec ==
    /\ InitCore
    /\ InitCodec({ "ifSafe" }, { {} })
    /\ InitNas({ FALSE })
    /\ InitLd({ [n \in LdNameSet |-> LdAbsent] })
    /\ InitMap
    /\ InitMore

NextMap == SetChannelMappings \/ AddChannelMapping \/ RemoveChannelMapping

SpecMap == InitMapSpec /\ [][NextMap]_vars

\* the background scan loop and request-triggered scans of one service
InitNasSpec ==
    /\ InitCore
    /\ InitCodec({ "ifSafe" }, { {} })
    /\ InitNas(BOOLEAN)
    /\ InitLd({ [n \in LdNameSet |-> LdAbsent] })
    /\ InitMap
    /\ InitMore

NextNas == (\E t \in Threads : ScanCall(t))
           \/ (\E t \in Threads : ScanAcquire(t))
           \/ (\E t \in Threads : ScanCheck(t))
           \/ (\E t \in Threads : ScanDiscover(t))
           \/ (\E t \in Threads : ScanGlob(t))
           \/ Tick \/ NasChange

SpecNas == InitNasSpec /\ [][NextNas]_vars

\* two uploads handled at the same time over one parameter queue
InitUploadSpec ==
    /\ InitPatcher({ NoDoc })
    /\ InitDb
    /\ InitRec
    /\ status_default \in { CreateTableStatusDefault, LegacyStatusDefault }
    /\ InitExt

NextUpload == AddToQueue
              \/ (\E u \in Uploads : UploadStart(u))
              \/ (\E u \in Uploads : UploadItem(u))
              \/ (\E u \in Uploads : UploadReturn(u))

SpecUpload == InitUploadSpec /\ [][NextUpload]_vars

\* merge calls over the template files and record lists
SpecMerge == InitUploadSpec /\ [][MergeLdxWithParameters]_vars

\* a session linked from a valid LD file and the mapping calls after it
InitSessionSpec ==
    /\ InitCore
    /\ InitCodec({ "ifSafe" }, { {} })
    /\ InitNas({ FALSE })
    /\ InitLd({ [n \in LdNameSet |-> IF n = "a.ld" THEN LdFile(512) ELSE LdAbsent] })
    /\ InitMap
    /\ InitMore

NextSession == LinkSession \/ SessionSetChannelMappings \/ SessionAddChannelMapping
               \/ SessionRemoveChannelMapping

SpecSession == InitSessionSpec /\ [][NextSession]_vars

\* the file loops of the NAS scan over the directory layouts
SpecScanDirs == InitUploadSpec /\ [][ScanDirsLoop]_vars

\* start and stop calls of one caller and the loop threads they leave
NextLoops == StartBackgroundScanning \/ StopBackgroundScanning \/ JoinReturn
             \/ (\E l \in LoopIds : LoopCheck(l))
             \/ (\E l \in LoopIds : LoopScan(l))
             \/ (\E l \in LoopIds : LoopWake(l))

SpecLoops == InitUploadSpec /\ [][NextLoops]_vars

(* ---- properties ------------------------------------------------------------------------ *)
InCall == upc # "idle"

\* C1: while a call patches an existing LDX path, the path holds at every
\* instant the complete pre-patch file or the complete post-patch file, and
\* a concurrent reader never observes anything else.
C1_ReaderSeesOldOrNew ==
    /\ seen # "torn"
    /\ InCall => \/ fs["ldx"] = upre
                 \/ ucommitted /\ fs["ldx"] = Serialize(utree)

\* a reader saw the old file while the new one was fully staged next to it
C1_Witness ==
    /\ upc = "replace"
    /\ seen = "old"
    /\ fs["tmp"] = Serialize(utree)
    /\ fs["tmp"] # fs["ldx"]

\* C2: a call that ends without having reached the commit rename returns
\* False and leaves the content of the original path equal to the content
\* before the call; the staged file has not become the canonical path.
C2_AbortLeavesOriginal ==
    (upc = "idle" /\ ures # "none" /\ ~ucommitted)
        => /\ ures = "false"
           /\ fs["ldx"] = upre

\* the staged write was interrupted
C2_Witness ==
    /\ upc = "idle"
    /\ ures = "false"
    /\ ~ucommitted
    /\ fs["tmp"] = Partial
    /\ fs["ldx"] = upre

\* C3: whenever a .bak sibling exists it is a copy of the file as it was
\* before the first successful patch, and no later step changes it.
C3_BackupIsFirstPreImage ==
    fs["bak"].kind # "missing" => fs["bak"] = orig

\* C4: two successful patches in a row with the same (parameter_name, value,
\* comment) leave the same file; the second does not touch the .bak.
C4_SamePatchTwice ==
    (okPrev.valid /\ okLast.valid /\ okPrev.args = okLast.args)
        => /\ okLast.file = okPrev.file
           /\ okLast.bak = okPrev.bak

\* a documentation parameter patched twice: the second call finds the String
\* the first one added
C4_Witness ==
    /\ okPrev.valid
    /\ okLast.valid
    /\ okPrev.args = okLast.args
    /\ okLast.args.name.prefix = ""
    /\ okLast.args.comment # <<>>
    /\ okLast.file.doc # orig.doc

HasSpace(id) == \E k \in 1..Len(id) : id[k] = " "

\* C5: for every details entry whose Id contains spaces ldx_to_parameters
\* yields the name ldx_details_<Id with underscores>, and patching that name
\* resolves to that entry, not to an entry with the literal underscore Id.
C5_NamingRoundTrip ==
    imported.ran =>
        LET details == Parse(imported.file).details IN
        \A i \in 1..Len(details) :
            HasSpace(details[i].Id) =>
                LET name == PName("ldx_details_", ReplaceAtom(details[i].Id, " ", "_")) IN
                /\ imported.result.ok
                /\ \E k \in 1..Len(imported.result.names) : imported.result.names[k] = name
                /\ FirstIn(details, DetailsIds(DecodeDetailsId(name))) = i

Leaving == rpc = "patching" /\ rpc' # "patching"

Recorded(item) ==
    /\ parameters'[item.parameter_name] = [exists |-> TRUE, current_value |-> item.new_value]
    /\ \E h \in 1..Len(history') : /\ history'[h].form_id = item.form_id
                                   /\ history'[h].new_value = item.new_value

MarkedAutoApplied(item) ==
    \A i \in 1..Len(queue') :
        queue'[i].form_id = item.form_id => queue'[i].status = QUEUE_STATUS_AUTO_APPLIED

OncePerList ==
    rpc = "done" =>
        \A k \in 1..Len(ritems) :
            Cardinality({ a \in 1..Len(applied) : applied[a] = ritems[k].form_id })
            + Cardinality({ f \in 1..Len(failed) : failed[f] = ritems[k].form_id }) = 1

\* C6 as claimed: a fetched item whose patch returned True is recorded,
\* marked auto-applied and reported applied; any other is reported failed
\* and the queue is left alone; every fetched item is in exactly one list.
C6_PatchResultDecides ==
    /\ []OncePerList
    /\ [][Leaving =>
            IF ures = "true"
            THEN /\ applied' = Append(applied, ritems[ri].form_id)
                 /\ failed' = failed
                 /\ Recorded(ritems[ri])
                 /\ MarkedAutoApplied(ritems[ri])
            ELSE /\ failed' = Append(failed, ritems[ri].form_id)
                 /\ applied' = applied
                 /\ queue' = queue]_vars

\* C6 as amended: the item is reported applied, recorded and marked
\* auto-applied only after a successful patch; otherwise, and always when
\* the patch did not succeed, it is reported failed and the call leaves the
\* queue row alone (and, when the patch did not succeed, the store too).
C6_AppliedOrFailed ==
    /\ []OncePerList
    /\ [][Leaving =>
            \/ /\ ures = "true"
               /\ applied' = Append(applied, ritems[ri].form_id)
               /\ failed' = failed
               /\ Recorded(ritems[ri])
               /\ MarkedAutoApplied(ritems[ri])
            \/ /\ failed' = Append(failed, ritems[ri].form_id)
               /\ applied' = applied
               /\ queue' = queue
               /\ ures # "true" => parameters' = parameters /\ history' = history]_vars

\* two fetched items, the first failed and the second was applied
C6_Witness ==
    /\ rpc = "done"
    /\ Len(ritems) = 2
    /\ failed = << ritems[1].form_id >>
    /\ applied = << ritems[2].form_id >>

\* C7: the call never raises, and it hands every fetched item to the patcher
\* exactly once, in order, whatever happened to the items before it.
C7_EveryItemAttempted ==
    /\ rpc # "raised"
    /\ Len(rattempts) <= Len(ritems)
    /\ \A k \in 1..Len(rattempts) : rattempts[k] = ritems[k].form_id
    /\ rpc = "done" => Len(rattempts) = Len(ritems)

\* the first of two items failed and the second was still attempted
C7_Witness ==
    /\ rpc = "done"
    /\ Len(ritems) = 2
    /\ Len(failed) >= 1
    /\ failed[1] = ritems[1].form_id
    /\ rattempts = FormIds(ritems)

\* C8: the fetched changes are processed in submission order, earlier first.
C8_SubmissionOrder ==
    \A a, b \in 1..Len(ritems) :
        a < b => ritems[a].submitted_at <= ritems[b].submitted_at

\* C9: a queued change that was not processed, rejected or auto-applied is
\* returned by get_queue(status = pending), with and without its car filter.
C9_AddedIsPending ==
    \A i \in 1..Len(queue) :
        queue[i].status \notin { QUEUE_STATUS_AUTO_APPLIED, QUEUE_STATUS_PROCESSED,
                                 QUEUE_STATUS_REJECTED }
            => \A car \in { NoCar, queue[i].car_id } :
                 \E k \in 1..Len(get_queue(queue, QUEUE_STATUS_PENDING, car)) :
                     get_queue(queue, QUEUE_STATUS_PENDING, car)[k].form_id = queue[i].form_id

\* C10: process_queue_item on a pending item returns True and leaves a
\* history entry with the item's form_id.
C10_ProcessPending ==
    (plast.ran /\ plast.was = QUEUE_STATUS_PENDING)
        => /\ plast.result = "true"
           /\ \E h \in 1..Len(history) : history[h].form_id = plast.form_id

Returned == upc = "idle" /\ ures # "none"

\* C11: once a call has returned, with success or with failure, no .tmp
\* sibling of the file is left on disk.
C11_NoTmpAfterReturn ==
    Returned => fs["tmp"].kind = "missing"

Uncatalogued(name) == name.prefix = "" /\ name.rest \notin CatalogNames

\* C12: a call whose parameter name has none of the three structural
\* prefixes and no catalog entry never changes the file or its .bak and
\* does not report success.
C12_UncataloguedNotFound ==
    /\ [](Returned /\ Uncatalogued(uargs.name) => ures = "false" /\ fs["ldx"] = upre)
    /\ [][InCall /\ Uncatalogued(uargs.name)
            => fs'["ldx"] = fs["ldx"] /\ fs'["bak"] = fs["bak"]]_vars

\* the Details String the generic branch leaves for a name without a catalog
\* entry: Id is the name with "_" as " " in title case, Value is the value
\* followed by " (<comment>)" when a comment was given
Documented(doc, args) ==
    LET id == Title(ReplaceAtom(args.name.rest, "_", " "))
        value == IF args.comment # <<>>
                 THEN args.value \o << " ", "(" >> \o args.comment \o << ")" >>
                 ELSE args.value
        i == FirstIn(doc.details, { id })
    IN /\ doc.layers
       /\ doc.hasDetails
       /\ i # 0
       /\ doc.details[i].Value = value

\* C12 (amended): a call on a well-formed file whose parameter name has none
\* of the three structural prefixes and no catalog entry is not rejected as
\* not found: it goes on to the backup step with a tree that documents the
\* value in a Details String, and when it returns success the file holds
\* that String.
C12_UncataloguedDocumented ==
    /\ [](InCall /\ Uncatalogued(uargs.name) => Documented(utree, uargs))
    /\ [](Returned /\ Uncatalogued(uargs.name) /\ ures = "true"
            => IsXml(fs["ldx"]) /\ Documented(Parse(fs["ldx"]), uargs))
    /\ [][(npatch' = npatch + 1 /\ Uncatalogued(uargs'.name) /\ IsXml(fs["ldx"]))
            => upc' = "backup"]_vars

\* a file without a Details section patched with wing_angle: success
C12_Witness ==
    /\ Returned
    /\ ures = "true"
    /\ Uncatalogued(uargs.name)
    /\ ~upre.doc.hasDetails
    /\ fs["ldx"] # upre

\* C13: reading back the file write_ldx produced from a model with a
\* non-empty workspace_name gives that model's workspace_name, project_name,
\* car_name, channels, worksheets (with their channel lists) and metadata.
C13_CodecRoundTrip ==
    rback.ran =>
        /\ rback.result.workspace_name = rback.model.workspace_name
        /\ rback.result.project_name = rback.model.project_name
        /\ rback.result.car_name = rback.model.car_name
        /\ rback.result.channels = rback.model.channels
        /\ rback.result.worksheets = rback.model.worksheets
        /\ rback.result.metadata = rback.model.metadata

InWrite == wpc # "idle"

\* C14: while write_ldx runs on a path that held a file, and after it has
\* ended in any way, the path holds the complete old file or the complete
\* new one, and a concurrent reader never finds it gone.
C14_SafeWrite ==
    /\ wseen # "gone"
    /\ (wold.kind = "xml" /\ (InWrite \/ wres # "none"))
            => lfs[wpath] \in { wold, LdxFile(EncodeLdx(wmodel)) }

GenerationReturned == wcaller = "linker" /\ wpc = "idle" /\ wres # "none"

C17_WitnessRefused ==
    /\ GenerationReturned
    /\ policy = "never"
    /\ wold = OldLdx
    /\ wres = "FileExistsError"

\* C18: a batch never raises and returns, in discovery order, exactly the
\* sessions of the discovered files that pass validation and so can be linked.
C18_BatchLinksEveryGoodFile ==
    batch.ran =>
        /\ ~batch.raised
        /\ [i \in 1..Len(batch.sessions) |-> batch.sessions[i].ld_file_path]
             = SelectSeq(discover_ld_files(ldfiles), LAMBDA n : validate_ld(ldfiles[n]))

\* C19: read_ld_metadata does not raise; a missing file or one under 512
\* bytes gives valid = false with a non-empty error, and valid = true is
\* given only to files of at least 512 bytes.
C19_LdMetadataSoftFailure ==
    ldmeta.ran =>
        /\ ~ldmeta.raised
        /\ (ldmeta.file.kind = "absent" \/ ldmeta.file.size < 512)
              => (~ldmeta.metadata.valid /\ Truthy(ldmeta.metadata.error))
        /\ ldmeta.metadata.valid => (ldmeta.file.kind # "absent" /\ ldmeta.file.size >= 512)

\* C20: whatever calls were made, a car never has two enabled mappings with
\* the same internal_name.
C20_OneEnabledMappingPerName ==
    \A car_id \in Cars :
        \A i, j \in 1..Len(channel_mappings[car_id]) :
            LET a == channel_mappings[car_id][i]
                b == channel_mappings[car_id][j]
            IN (a.internal_name = b.internal_name /\ a.enabled /\ b.enabled) => i = j

\* the last successful scan is younger than half the scan interval
FreshSuccess == last_success # NoStamp /\ (clock - last_success) * 2 < ScanInterval

\* C15: a call returns the cached lists without scanning exactly when it is
\* not forced and the last successful scan is younger than half the interval;
\* a forced call always goes on to scan.
C15_CacheRule ==
    [][\A t \in Threads :
          (tpc[t] = "check" /\ tpc'[t] # "check")
              => /\ (tpc'[t] = "idle") <=> (~tforce[t] /\ FreshSuccess)
                 /\ (tpc'[t] = "idle")
                        => (tres'[t].status = "cached" /\ tres'[t].files = discovered)]_vars

\* C16: never two threads inside the scan body, and a non-forced call that
\* arrived while another thread was scanning returns the cached result
\* instead of scanning again.
C16_OneScanAtATime ==
    /\ [](\A t, u \in Threads : (InBody(t) /\ InBody(u)) => t = u)
    /\ [][\A t \in Threads :
            (tpc[t] = "check" /\ toverlap[t] /\ ~tforce[t] /\ tpc'[t] # "check")
                => (tpc'[t] = "idle" /\ tres'[t].status = "cached")]_vars

\* C23: whenever a call stages the temporary file or replaces the original,
\* a .bak sibling exists; a backup that cannot be created ends the call with
\* failure, the temporary path and the original file as they were.
C23_BackupBeforeStage ==
    /\ [](upc \in { "stage", "write", "replace", "verify" } => fs["bak"].kind # "missing")
    /\ [][(fs'["tmp"] # fs["tmp"] \/ fs'["ldx"] # fs["ldx"]) => fs["bak"].kind # "missing"]_vars
    /\ [][(upc = "backup" /\ upc' # "backup" /\ fs["bak"].kind = "missing"
                             /\ fs'["bak"] # fs["ldx"])
            => /\ upc' = "idle"
               /\ ures' = "false"
               /\ fs'["tmp"] = fs["tmp"]
               /\ fs'["ldx"] = upre]_vars

\* a call on a file without a .bak replaced the original
C23_Witness ==
    /\ Returned
    /\ ucommitted
    /\ upre = orig
    /\ fs["bak"] = orig
    /\ fs["ldx"] # orig

\* a call whose backup could not be created has returned
C23_WitnessAbort ==
    /\ Returned
    /\ ures = "false"
    /\ IsXml(upre)
    /\ utree # NoDoc
    /\ fs["bak"].kind = "missing"
    /\ fs["tmp"].kind = "missing"
    /\ fs["ldx"] = upre

\* C24: the verification reads the staged temporary file and comes before
\* the rename that replaces the original; a call ends committed or aborted,
\* never both.
C24_VerifyBeforeCommit ==
    /\ [](upc = "verify" => (~ucommitted /\ fs["tmp"] = Serialize(utree)))
    /\ [](Returned => (ucommitted <=> ures = "true"))

\* the section of the file the name addresses holds a node whose Id is the
\* decoded id in its underscore form or in its space form
AddressesNode(doc, name) ==
    LET Forms(id) == { id, ReplaceAtom(id, "_", " ") }
        In(section, id) == \E i \in 1..Len(section) : section[i].Id \in Forms(id)
    IN CASE name.prefix = "ldx_details_" -> doc.hasDetails /\ In(doc.details, name.rest)
         [] name.prefix = "ldx_math_" ->
                /\ LastUnderscore(name.rest) > 0
                /\ SplitField(name.rest) \in { <<"scale">>, <<"offset">> }
                /\ In(doc.math, SplitId(name.rest))
         [] name.prefix = "ldx_desc_" ->
                /\ LastUnderscore(name.rest) > 0
                /\ SplitField(name.rest) \in { <<"dps">>, <<"unit">> }
                /\ In(doc.desc, SplitId(name.rest))
         [] OTHER -> FALSE

\* C25: a structural name whose decoded id is the Id of a node of its section,
\* in underscore form or in space form, is located: the call goes on to the
\* backup step.
C25_LocateBothForms ==
    [][(npatch' = npatch + 1 /\ IsXml(fs["ldx"]) /\ AddressesNode(Parse(fs["ldx"]), uargs'.name))
            => upc' = "backup"]_vars

\* the history rows written for a form id
Records(hist, form_id) == { k \in 1..Len(hist) : hist[k].form_id = form_id }

\* C29: a processed or rejected row keeps its status and its value is not
\* applied again; an auto-applied row only becomes processed or rejected and
\* its value is not applied again.
C29_TerminalStatuses ==
    [][\A i \in 1..Len(queue) :
          LET row == queue[i] IN
          /\ row.status \in { QUEUE_STATUS_PROCESSED, QUEUE_STATUS_REJECTED }
                => queue'[i].status = row.status
          /\ row.status = QUEUE_STATUS_AUTO_APPLIED
                => queue'[i].status \in { QUEUE_STATUS_AUTO_APPLIED, QUEUE_STATUS_PROCESSED,
                                          QUEUE_STATUS_REJECTED }
          /\ row.status \in { QUEUE_STATUS_PROCESSED, QUEUE_STATUS_REJECTED,
                               QUEUE_STATUS_AUTO_APPLIED }
                => Records(history', row.form_id) = Records(history, row.form_id)]_vars

\* C27: whatever the interleaving of the reconciliations, at most one history
\* row is written per form id.
C27_AppliedAtMostOnce ==
    \A i \in 1..Len(queue) : Cardinality(Records(history, queue[i].form_id)) <= 1

\* C28: a change is patched only into files identified as the car it was
\* queued for, never into a file of another car or of no identified car.
C28_PatchedIntoOwnCarOnly ==
    \A u \in Uploads : \A k \in 1..Len(uploads[u].patched) :
        \A i \in 1..Len(queue) :
            queue[i].form_id = uploads[u].patched[k] => queue[i].car_id = uploads[u].car

\* the ids the records of a kind cover
CoveredDetails(records) == { DetailsParams(records)[k].Id : k \in 1..Len(DetailsParams(records)) }
CoveredMath(records) == { MathParams(records, <<>>)[k].Id : k \in 1..Len(MathParams(records, <<>>)) }
CoveredDesc(records) ==
    { DescriptorParams(records, <<>>)[k].Id : k \in 1..Len(DescriptorParams(records, <<>>)) }

Entries(seq) == { seq[k] : k \in 1..Len(seq) }

\* C22: with strategy merge the output carries the record's value for every
\* id a record covers, every template entry no record covers, and the
\* template's marker groups; with parameters_override it has no markers.
C22_MergeKeepsTemplate ==
    merged.ran =>
        /\ merged.merge_strategy = "merge" =>
            /\ \A k \in 1..Len(merged.parameters) :
                  LET param == merged.parameters[k] IN
                  param.parameter_name.prefix = "ldx_details_" =>
                      [Id |-> DetailsOriginalId(param), Value |-> param.current_value]
                          \in Entries(merged.out.doc.details)
            /\ \A e \in Entries(merged.template.doc.details) :
                  e.Id \notin CoveredDetails(merged.parameters) => e \in Entries(merged.out.doc.details)
            /\ \A e \in Entries(merged.template.doc.math) :
                  e.Id \notin CoveredMath(merged.parameters) => e \in Entries(merged.out.doc.math)
            /\ \A e \in Entries(merged.template.doc.desc) :
                  e.Id \notin CoveredDesc(merged.parameters) => e \in Entries(merged.out.doc.desc)
            /\ merged.out.marker_groups = merged.template.marker_groups
        /\ merged.merge_strategy = "parameters_override" => merged.out.marker_groups = <<>>

\* C21: once created by linking, a session's fields, its channels among
\* them, are not changed by later mapping calls.
C21_SessionImmutable ==
    [][held.made => held'.session = held.session]_vars

C30_OneLoop ==
    /\ [](Cardinality({ l \in LoopIds : Alive(l) }) <= 1)
    /\ [][\A l \in retired : loops'[l] = "scan" => loops[l] = "scan"]_vars

====
